---- MODULE Spec2Model ----
(***************************************************************************)
(* A model of the qiyuan-api file relay (controller UploadFile,            *)
(* BatchUploadFile, BatchGetFileStatus, getGeminiChannel), of the Gemini   *)
(* helper gemini.BatchGetFileStatus and of GeminiImageGenerationHandler.   *)
(*                                                                         *)
(* Strings the code inspects character by character (file paths) are       *)
(* sequences of one-character strings; all other strings are TLA+ strings. *)
(***************************************************************************)
EXTENDS Integers, Sequences, FiniteSets, TLC

(***************************************************************************)
(* Bounds of the model.                                                    *)
(***************************************************************************)
\* longest local_path (in characters) of an UploadFile request
MaxPathLen == 5
\* batch requests of every content are enumerated up to this length
MaxShort == 2
\* longest batch request (one repeated entry), above the pool capacity
MaxFiles == 11
\* largest token count the upstream usageMetadata reports
MaxTokens == 1
\* most candidate boundaries and parts of an upstream image response
MaxShape == 3

(***************************************************************************)
(* Paths: path/filepath on a platform with one separator.                  *)
(***************************************************************************)
Separator == "/"

PathChars == {Separator, ".", "a"}

\* "/a" stands for the allow-listed directory H:\Code\jd_vedio
allowedBaseDir == <<"/", "a">>

RECURSIVE SeqsUpTo(_, _)
SeqsUpTo(S, n) ==
    IF n = 0 THEN {<<>>}
    ELSE LET shorter == SeqsUpTo(S, n - 1)
         IN  shorter \cup {Append(s, x) : s \in {t \in shorter : Len(t) = n - 1}, x \in S}

RECURSIVE SplitPath(_)
\* the elements of a path between its separators (empty elements included)
SplitPath(p) ==
    IF p = <<>> THEN << <<>> >>
    ELSE LET rest == SplitPath(Tail(p))
         IN  IF Head(p) = Separator
             THEN << <<>> >> \o rest
             ELSE << <<Head(p)>> \o Head(rest) >> \o Tail(rest)

IsAbs(p) == p # <<>> /\ Head(p) = Separator

RECURSIVE CleanElems(_, _, _)
\* the lexical processing of filepath.Clean over the elements still to read
CleanElems(elems, out, rooted) ==
    IF elems = <<>> THEN out
    ELSE LET e == Head(elems)
             rest == Tail(elems)
         IN  IF e = <<>> \/ e = <<".">>
             THEN CleanElems(rest, out, rooted)
             ELSE IF e = <<".", ".">>
             THEN IF out # <<>> /\ out[Len(out)] # <<".", ".">>
                  THEN CleanElems(rest, SubSeq(out, 1, Len(out) - 1), rooted)
                  ELSE IF rooted
                       THEN CleanElems(rest, out, rooted)
                       ELSE CleanElems(rest, Append(out, e), rooted)
             ELSE CleanElems(rest, Append(out, e), rooted)

RECURSIVE JoinElems(_)
JoinElems(elems) ==
    IF elems = <<>> THEN <<>>
    ELSE IF Len(elems) = 1 THEN Head(elems)
    ELSE Head(elems) \o <<Separator>> \o JoinElems(Tail(elems))

\* filepath.Clean
Clean(p) ==
    LET rooted == IsAbs(p)
        body == JoinElems(CleanElems(SplitPath(p), <<>>, rooted))
    IN  IF rooted THEN <<Separator>> \o body
        ELSE IF body = <<>> THEN <<".">> ELSE body

\* filepath.Abs with the process working directory wd
Abs(p, wd) ==
    IF IsAbs(p) THEN Clean(p)
    ELSE IF p = <<>> THEN Clean(wd)
    ELSE Clean(wd \o <<Separator>> \o p)

\* strings.HasPrefix
HasPrefix(s, prefix) ==
    Len(s) >= Len(prefix) /\ SubSeq(s, 1, Len(prefix)) = prefix

\* an allow-list test without the separator after the base directory
PathAllowedNoSeparator(cleanPath) ==
    HasPrefix(cleanPath, Clean(allowedBaseDir)) \/ cleanPath = Clean(allowedBaseDir)

\* the allow-list test of UploadFile and BatchUploadFile on a cleaned path
PathAllowed(cleanPath) ==
    LET cleanAllowedBaseDir == Clean(allowedBaseDir)
    IN  HasPrefix(cleanPath, cleanAllowedBaseDir \o <<Separator>>)
        \/ cleanPath = cleanAllowedBaseDir

\* filepath.Clean(filepath.Abs(path))
CleanAbs(p, wd) == Clean(Abs(p, wd))

(***************************************************************************)
(* The environment: the channel table, the file system, the contexts.      *)
(***************************************************************************)
modelName == "gemini-2.0-flash"

\* rows of the channels table (model.Channel)
Channels ==
    [id \in 1..4 |->
        CASE id = 1 -> [Id |-> 1, Key |-> "key-1", Status |-> "enabled",
                        Group |-> {"default"}, Models |-> {modelName}, Priority |-> 10]
          [] id = 2 -> [Id |-> 2, Key |-> "key-2", Status |-> "enabled",
                        Group |-> {"vip"}, Models |-> {modelName}, Priority |-> 10]
          [] id = 3 -> [Id |-> 3, Key |-> "key-3", Status |-> "auto_disabled",
                        Group |-> {"default", "vip"}, Models |-> {modelName}, Priority |-> 10]
          [] id = 4 -> [Id |-> 4, Key |-> "key-4", Status |-> "enabled",
                        Group |-> {"default", "vip"}, Models |-> {"gemini-1.5-pro"}, Priority |-> 10]]

Groups == {"default", "vip"}

\* the channel is enabled and serves (group, model): it has an enabled ability for it
Serves(id, group, model) ==
    /\ id \in DOMAIN Channels
    /\ Channels[id].Status = "enabled"
    /\ group \in Channels[id].Group
    /\ model \in Channels[id].Models

\* the top priority band of the enabled abilities of (group, model); retry 0
CacheGetRandomSatisfiedChannel(group, model) ==
    LET able == {id \in DOMAIN Channels : Serves(id, group, model)}
    IN  {id \in able : \A other \in able : Channels[other].Priority <= Channels[id].Priority}

\* model.GetChannelById: the row of that id, whatever its status
GetChannelById(id) == IF id \in DOMAIN Channels THEN {id} ELSE {}

\* strconv.ParseInt(idStr, 10, 64) on the strings of the model
ParseInt(idStr) ==
    CASE idStr = "1" -> [ok |-> TRUE, n |-> 1]
      [] idStr = "2" -> [ok |-> TRUE, n |-> 2]
      [] idStr = "3" -> [ok |-> TRUE, n |-> 3]
      [] idStr = "4" -> [ok |-> TRUE, n |-> 4]
      [] idStr = "5" -> [ok |-> TRUE, n |-> 5]
      [] OTHER -> [ok |-> FALSE, n |-> 0]

\* values of the context key specific_channel_id: unset, set to a non-string, or a string
SpecificIds == {"<unset>", "<not a string>", "abc", "1", "2", "3", "4", "5"}

\* the gin context keys getGeminiChannel reads and writes
Contexts ==
    [specific_channel_id : SpecificIds, channel_id : {0}, use_channel : {<<>>}]

DefaultContext ==
    [specific_channel_id |-> "<unset>", channel_id |-> 0, use_channel |-> <<>>]

\* working directories of the server process
Cwds == { <<"/", "a">>, <<"/", "a", "a">> }

\* what os.Open and File.Stat do on a cleaned path of the file system
OpenOutcome(cPath) ==
    CASE cPath = <<"/", "a">> -> "ok"
      [] cPath = <<"/", "a", "/", "a">> -> "ok"
      [] cPath = <<"/", "a", "/", "a", "a">> -> "permission"
      [] cPath = <<"/", "a", "/", ".", "a">> -> "staterr"
      [] cPath = <<"/", "a", "/", ".", ".", ".">> -> "ioerr"
      [] OTHER -> "notexist"

NoFile == <<>>

NoResponse == [status |-> 0, channel_id |-> 0]

\* the outcomes of getGeminiChannel: an error, or a channel, with the context it leaves
getGeminiChannel(ctx, group, originalModel) ==
    IF ctx.specific_channel_id # "<unset>"
    THEN IF ctx.specific_channel_id = "<not a string>"
         THEN {[err |-> TRUE, channel |-> 0, c |-> ctx]}
         ELSE LET parsed == ParseInt(ctx.specific_channel_id)
                  set == [ctx EXCEPT !.channel_id = parsed.n]
              IN  IF ~parsed.ok
                  THEN {[err |-> TRUE, channel |-> 0, c |-> ctx]}
                  ELSE IF GetChannelById(parsed.n) = {}
                  THEN {[err |-> TRUE, channel |-> 0, c |-> set]}
                  ELSE {[err |-> FALSE, channel |-> id, c |-> set] : id \in GetChannelById(parsed.n)}
    ELSE LET found == CacheGetRandomSatisfiedChannel(group, originalModel)
         IN  IF found = {}
             THEN {[err |-> TRUE, channel |-> 0, c |-> ctx]}
             ELSE {[err |-> FALSE, channel |-> id,
                    c |-> [ctx EXCEPT !.use_channel = Append(@, id), !.channel_id = id]]
                   : id \in found}

\* the key of the first channel of the table, whatever channel was selected
ChannelKeyOfFirst(id) == Channels[1].Key

\* apiKey := channel.Key
ChannelKey(id) == Channels[id].Key

(***************************************************************************)
(* State.                                                                  *)
(***************************************************************************)
VARIABLES
    handler,        \* the handler serving the request
    request,        \* the bound request body: [valid, items]
    cwd,            \* working directory of the process
    c,              \* gin context keys
    userGroup,      \* user.Group of the authenticated user
    pc,             \* position of the handler goroutine
    cleanPaths,     \* validated, cleaned paths
    channel,        \* id of the channel getGeminiChannel returned, 0 before
    apiKey,         \* channel.Key
    selections,     \* number of getGeminiChannel calls of the request
    opened,         \* cleaned paths given to a successful os.Open
    upstream,       \* calls sent upstream: [key, file, by]
    results,        \* BatchUploadFile: results array
    statusResults,  \* gemini.BatchGetFileStatus: results map
    workers,        \* worker goroutines: [state, index, arg, origPath]
    loopIndex,      \* next index of the spawning loop
    sem,            \* slots taken in the semaphore channel
    wg,             \* WaitGroup counter
    response,       \* what c.JSON wrote: [status, channel_id]
    img,            \* state of GeminiImageGenerationHandler
    db,             \* the channels table: [rows, nextId]
    disk,           \* files the tools have written: [name, channels]
    mgr,            \* the channel_manager.go process
    sh,             \* the shell script being run
    ledger,         \* the quota ledger and the requests in flight
    router,         \* the routing loop of one relay request
    download,       \* the DoDownloadRequest call in progress
    tester          \* the key tester of test_gemini_keys.go

fileVars ==
    <<handler, request, cwd, c, userGroup, pc, cleanPaths, channel, apiKey,
      selections, opened, upstream, results, statusResults, workers, loopIndex,
      sem, wg, response>>

\* the state of the maintenance tools (scripts/)
toolVars == <<db, disk, mgr, sh>>

\* the state of the routing loop, of the download helper and of the key tester
moreVars == <<router, download, tester>>

vars == <<fileVars, img, toolVars, ledger, moreVars>>

\* the variables no file handler touches
nonFileVars == <<img, toolVars, ledger, moreVars>>

\* the variables channel_manager.go does not touch
nonManagerVars == <<fileVars, img, sh, ledger, moreVars>>

\* the variables a shell script does not touch itself
nonScriptVars == <<fileVars, img, db, ledger, moreVars>>

\* the variables the relay pipeline's billing does not touch
nonLedgerVars == <<fileVars, img, toolVars, moreVars>>

\* the variables GeminiImageGenerationHandler does not touch
nonImageVars == <<fileVars, toolVars, ledger, moreVars>>

ImgIdle == [pc |-> "idle"]

\* no request is routed, nothing is downloaded, no key is tested
MoreIdle ==
    /\ router = [pc |-> "idle"]
    /\ download = [pc |-> "idle"]
    /\ tester = [pc |-> "idle"]

\* no tool is running and no request is being billed
ToolsIdle ==
    /\ db = [rows |-> {}, nextId |-> 1]
    /\ disk = {}
    /\ mgr = [pc |-> "idle"]
    /\ sh = [pc |-> "idle"]
    /\ ledger = [pc |-> "idle"]
    /\ MoreIdle

InvalidBody == [valid |-> FALSE, items |-> <<>>]

Body(items) == [valid |-> TRUE, items |-> items]

\* a request of n times the same entry
Repeat(x, n) == [k \in 1..n |-> x]

\* the state of a handler that has read nothing yet
FreshHandler ==
    /\ pc = "start"
    /\ cleanPaths = <<>>
    /\ channel = 0
    /\ apiKey = ""
    /\ selections = 0
    /\ opened = {}
    /\ upstream = {}
    /\ results = <<>>
    /\ statusResults = <<>>
    /\ workers = <<>>
    /\ loopIndex = 1
    /\ sem = 0
    /\ wg = 0
    /\ response = NoResponse

\* local_path values of UploadFile requests
UploadPaths == SeqsUpTo(PathChars, MaxPathLen)

\* entries of local_paths: skipped, uploadable, unreadable, failing Stat, outside
BatchPaths ==
    { <<>>, <<"/", "a", "/", "a">>, <<"/", "a", "/", "a", "a">>,
      <<".", "a">>, <<"/", "a", "a">> }

\* entries of file_names
FileNames == {"", "files/a", "files/b"}

\* the long requests have MaxFiles entries
LongLengths == {MaxFiles}

InitUpload ==
    /\ handler = "UploadFile"
    /\ request \in {InvalidBody} \cup {Body(<<p>>) : p \in UploadPaths}
    /\ cwd \in Cwds
    /\ c \in Contexts
    /\ userGroup \in Groups
    /\ FreshHandler
    /\ img = ImgIdle
    /\ ToolsIdle

InitBatchUpload ==
    /\ handler = "BatchUploadFile"
    /\ cwd = <<"/", "a">>
    /\ \/ /\ request \in {InvalidBody} \cup {Body(ps) : ps \in SeqsUpTo(BatchPaths, MaxShort)}
          /\ c \in Contexts
          /\ userGroup \in Groups
       \/ /\ request \in {Body(Repeat(p, n)) : p \in BatchPaths, n \in LongLengths}
          /\ c = DefaultContext
          /\ userGroup = "default"
    /\ FreshHandler
    /\ img = ImgIdle
    /\ ToolsIdle

InitBatchStatus ==
    /\ handler = "BatchGetFileStatus"
    /\ cwd = <<"/", "a">>
    /\ \/ /\ request \in {InvalidBody} \cup {Body(ns) : ns \in SeqsUpTo(FileNames, MaxShort)}
          /\ c \in Contexts
          /\ userGroup \in Groups
       \/ /\ request \in {Body(Repeat(n, k)) : n \in FileNames, k \in LongLengths}
          /\ c = DefaultContext
          /\ userGroup = "default"
    /\ FreshHandler
    /\ img = ImgIdle
    /\ ToolsIdle

InitFiles == InitUpload \/ InitBatchUpload \/ InitBatchStatus

\* c.JSON(status, ...) and return
Respond(status, channelId) ==
    /\ response' = [status |-> status, channel_id |-> channelId]
    /\ pc' = "done"

(***************************************************************************)
(* UploadFile.                                                             *)
(***************************************************************************)
\* bind the body, reject an empty local_path, clean the path and test the allow-list
UploadFile_Validate ==
    /\ handler = "UploadFile" /\ pc = "start"
    /\ IF ~request.valid \/ request.items[1] = <<>>
       THEN Respond(400, 0) /\ UNCHANGED cleanPaths
       ELSE LET cleanPath == CleanAbs(request.items[1], cwd)
            IN  IF ~PathAllowed(cleanPath)
                THEN Respond(403, 0) /\ UNCHANGED cleanPaths
                ELSE /\ cleanPaths' = <<cleanPath>>
                     /\ pc' = "open"
                     /\ UNCHANGED response
    /\ UNCHANGED <<handler, request, cwd, c, userGroup, channel, apiKey, selections,
                   opened, upstream, results, statusResults, workers, loopIndex, sem, wg>>
    /\ UNCHANGED nonFileVars

\* os.Open(cleanPath) and localFile.Stat()
UploadFile_Open ==
    /\ handler = "UploadFile" /\ pc = "open"
    /\ LET outcome == OpenOutcome(cleanPaths[1])
       IN  /\ opened' = IF outcome \in {"ok", "staterr"} THEN opened \cup {cleanPaths[1]} ELSE opened
           /\ CASE outcome = "notexist" -> Respond(404, 0)
                [] outcome = "permission" -> Respond(403, 0)
                [] outcome = "ioerr" -> Respond(500, 0)
                [] outcome = "staterr" -> Respond(500, 0)
                [] OTHER -> pc' = "getUser" /\ UNCHANGED response
    /\ UNCHANGED <<handler, request, cwd, c, userGroup, cleanPaths, channel, apiKey,
                   selections, upstream, results, statusResults, workers, loopIndex, sem, wg>>
    /\ UNCHANGED nonFileVars

\* model.GetUserCache(userId), common to the three handlers
GetUser ==
    /\ pc = "getUser"
    /\ \E found \in BOOLEAN :
          IF found THEN pc' = "getChannel" /\ UNCHANGED response
          ELSE Respond(500, 0)
    /\ UNCHANGED <<handler, request, cwd, c, userGroup, cleanPaths, channel, apiKey,
                   selections, opened, upstream, results, statusResults, workers,
                   loopIndex, sem, wg>>
    /\ UNCHANGED nonFileVars

\* channel, err := getGeminiChannel(...); apiKey := channel.Key
GetChannel(next) ==
    /\ pc = "getChannel"
    /\ \E r \in getGeminiChannel(c, userGroup, modelName) :
          /\ c' = r.c
          /\ selections' = selections + 1
          /\ IF r.err
             THEN Respond(500, 0) /\ UNCHANGED <<channel, apiKey>>
             ELSE /\ channel' = r.channel
                  /\ apiKey' = ChannelKey(r.channel)
                  /\ pc' = next
                  /\ UNCHANGED response
    /\ UNCHANGED <<handler, request, cwd, userGroup, cleanPaths, opened, upstream,
                   results, statusResults, workers, loopIndex, sem, wg>>
    /\ UNCHANGED nonFileVars

UploadFile_GetUser == handler = "UploadFile" /\ GetUser

UploadFile_GetChannel == handler = "UploadFile" /\ GetChannel("upload")

\* the id of the first channel of the table, whatever channel was selected
ResponseChannelIdOfFirst(selected) == Channels[1].Id

\* the channel_id field of a 200 response
ResponseChannelId(selected) == Channels[selected].Id

\* gemini.UploadFileReaderToGemini(ctx, apiKey, proxyURL, localFile, filename) and the answer
UploadFile_Upload ==
    /\ handler = "UploadFile" /\ pc = "upload"
    /\ upstream' = upstream \cup {[key |-> apiKey, file |-> cleanPaths[1], by |-> 0]}
    /\ \E uploaded \in BOOLEAN :
          IF uploaded THEN Respond(200, ResponseChannelId(channel))
          ELSE Respond(500, 0)
    /\ UNCHANGED <<handler, request, cwd, c, userGroup, cleanPaths, channel, apiKey,
                   selections, opened, results, statusResults, workers, loopIndex, sem, wg>>
    /\ UNCHANGED nonFileVars


(***************************************************************************)
(* BatchUploadFile.                                                        *)
(***************************************************************************)
\* concurrency := 10
concurrency == 10

RECURSIVE ValidatePaths(_, _, _)
\* the validation loop over request.LocalPaths: the first path outside the
\* allow-list ends it; empty paths are skipped
ValidatePaths(paths, wd, acc) ==
    IF paths = <<>> THEN [ok |-> TRUE, cleanPaths |-> acc]
    ELSE IF Head(paths) = <<>> THEN ValidatePaths(Tail(paths), wd, acc)
    ELSE LET cleanPath == CleanAbs(Head(paths), wd)
         IN  IF ~PathAllowed(cleanPath)
             THEN [ok |-> FALSE, cleanPaths |-> acc]
             ELSE ValidatePaths(Tail(paths), wd, Append(acc, cleanPath))

BatchUploadFile_Validate ==
    /\ handler = "BatchUploadFile" /\ pc = "start"
    /\ IF ~request.valid \/ Len(request.items) = 0
       THEN Respond(400, 0) /\ UNCHANGED cleanPaths
       ELSE LET v == ValidatePaths(request.items, cwd, <<>>)
            IN  IF ~v.ok
                THEN Respond(403, 0) /\ UNCHANGED cleanPaths
                ELSE /\ cleanPaths' = v.cleanPaths
                     /\ pc' = "getUser"
                     /\ UNCHANGED response
    /\ UNCHANGED <<handler, request, cwd, c, userGroup, channel, apiKey, selections,
                   opened, upstream, results, statusResults, workers, loopIndex, sem, wg>>
    /\ UNCHANGED nonFileVars

BatchUploadFile_GetUser == handler = "BatchUploadFile" /\ GetUser

BatchUploadFile_GetChannel == handler = "BatchUploadFile" /\ GetChannel("init")

UploadResult(originalPath, success, file, error) ==
    [OriginalPath |-> originalPath, Success |-> success, File |-> file, Error |-> error]

\* results := make([]UploadResult, len(cleanPaths)) and the loop that fills
\* results[i] for the indices i < len(cleanPaths) of request.LocalPaths
InitialResults(localPaths, cleaned) ==
    [i \in 1..Len(cleaned) |-> UploadResult(localPaths[i], FALSE, NoFile, "")]

IdleWorker == [state |-> "idle", arg |-> <<>>, origPath |-> <<>>]

BatchUploadFile_InitResults ==
    /\ handler = "BatchUploadFile" /\ pc = "init"
    /\ results' = InitialResults(request.items, cleanPaths)
    /\ workers' = [i \in 1..Len(cleanPaths) |-> IdleWorker]
    /\ loopIndex' = 1
    /\ pc' = "loop"
    /\ UNCHANGED <<handler, request, cwd, c, userGroup, cleanPaths, channel, apiKey,
                   selections, opened, upstream, statusResults, sem, wg, response>>
    /\ UNCHANGED nonFileVars

\* a send that never waits
SemHasRoomAlways(taken, capacity) == TRUE

\* a send on the buffered channel sem proceeds while the buffer has room
SemHasRoom(taken, capacity) == taken < capacity

\* originalPath := request.LocalPaths[i], i the index into cleanPaths
OriginalPathOf(localPaths, i) == localPaths[i]

\* one iteration of the upload loop: wg.Add(1); sem <- struct{}{}; go func(...)
BatchUploadFile_Spawn ==
    /\ handler = "BatchUploadFile" /\ pc = "loop"
    /\ loopIndex <= Len(cleanPaths)
    /\ SemHasRoom(sem, concurrency)
    /\ wg' = wg + 1
    /\ sem' = sem + 1
    /\ workers' = [workers EXCEPT ![loopIndex] =
                      [state |-> "running", arg |-> cleanPaths[loopIndex],
                       origPath |-> OriginalPathOf(request.items, loopIndex)]]
    /\ loopIndex' = loopIndex + 1
    /\ UNCHANGED <<handler, request, cwd, c, userGroup, pc, cleanPaths, channel, apiKey,
                   selections, opened, upstream, results, statusResults, response>>
    /\ UNCHANGED nonFileVars

\* a failure stored without its error text
OpenFailureLeftBlank(origPath, outcome) == UploadResult(origPath, FALSE, NoFile, "")

\* what the goroutine stores in results[index] when os.Open or Stat fails
OpenFailure(origPath, outcome) ==
    UploadResult(origPath, FALSE, NoFile,
                 CASE outcome = "notexist" -> "not found"
                   [] outcome = "permission" -> "no permission"
                   [] outcome = "staterr" -> "cannot stat file"
                   [] OTHER -> "cannot open file")

\* what the goroutine stores in results[index] after the upstream call
UploadOutcome(origPath, cPath, uploaded) ==
    IF uploaded THEN UploadResult(origPath, TRUE, cPath, "")
    ELSE UploadResult(origPath, FALSE, NoFile, "upload failed")

\* the worker goroutine of results[index]: open, stat, upload, store, release
BatchUploadFile_Worker(index) ==
    /\ handler = "BatchUploadFile"
    /\ index \in DOMAIN workers
    /\ workers[index].state = "running"
    /\ LET w == workers[index]
           outcome == OpenOutcome(w.arg)
       IN  /\ opened' = IF outcome \in {"ok", "staterr"} THEN opened \cup {w.arg} ELSE opened
           /\ IF outcome # "ok"
              THEN /\ results' = [results EXCEPT ![index] = OpenFailure(w.origPath, outcome)]
                   /\ UNCHANGED upstream
              ELSE \E uploaded \in BOOLEAN :
                   /\ upstream' = upstream \cup {[key |-> apiKey, file |-> w.arg, by |-> index]}
                   /\ results' = [results EXCEPT ![index] = UploadOutcome(w.origPath, w.arg, uploaded)]
    /\ workers' = [workers EXCEPT ![index].state = "done"]
    /\ sem' = sem - 1
    /\ wg' = wg - 1
    /\ UNCHANGED <<handler, request, cwd, c, userGroup, pc, cleanPaths, channel, apiKey,
                   selections, statusResults, loopIndex, response>>
    /\ UNCHANGED nonFileVars

BatchUploadFile_Work == \E index \in 1..MaxFiles : BatchUploadFile_Worker(index)

\* a wait that returns at once
WaitDoneAtOnce(counter) == TRUE

\* wg.Wait() returns once the counter is zero
WaitDone(counter) == counter = 0

\* wg.Wait() and the 200 answer
BatchUploadFile_Respond ==
    /\ handler = "BatchUploadFile" /\ pc = "loop"
    /\ loopIndex > Len(cleanPaths)
    /\ WaitDone(wg)
    /\ Respond(200, ResponseChannelId(channel))
    /\ UNCHANGED <<handler, request, cwd, c, userGroup, cleanPaths, channel, apiKey,
                   selections, opened, upstream, results, statusResults, workers,
                   loopIndex, sem, wg>>
    /\ UNCHANGED nonFileVars

(***************************************************************************)
(* BatchGetFileStatus: the controller and gemini.BatchGetFileStatus.       *)
(***************************************************************************)
\* concurrencyLimit := 10
concurrencyLimit == 10

BatchGetFileStatus_Validate ==
    /\ handler = "BatchGetFileStatus" /\ pc = "start"
    /\ IF ~request.valid \/ Len(request.items) = 0
       THEN Respond(400, 0)
       ELSE pc' = "getUser" /\ UNCHANGED response
    /\ UNCHANGED <<handler, request, cwd, c, userGroup, cleanPaths, channel, apiKey,
                   selections, opened, upstream, results, statusResults, workers,
                   loopIndex, sem, wg>>
    /\ UNCHANGED nonFileVars

BatchGetFileStatus_GetUser == handler = "BatchGetFileStatus" /\ GetUser

BatchGetFileStatus_GetChannel == handler = "BatchGetFileStatus" /\ GetChannel("client")

FileStatusResult(file, error) == [File |-> file, Error |-> error]

\* a nil *genai.File of a status result; a file is written as its name
NoFileInfo == ""

\* gemini.BatchGetFileStatus up to the loop: the proxy URL and the client; an
\* error here is the only error the function returns, answered 500
BatchGetFileStatus_NewClient ==
    /\ handler = "BatchGetFileStatus" /\ pc = "client"
    /\ \E created \in BOOLEAN :
          IF created
          THEN /\ statusResults' = [n \in {} |-> FileStatusResult(NoFileInfo, "")]
               /\ workers' = [i \in 1..Len(request.items) |-> IdleWorker]
               /\ loopIndex' = 1
               /\ pc' = "loop"
               /\ UNCHANGED response
          ELSE Respond(500, 0) /\ UNCHANGED <<statusResults, workers, loopIndex>>
    /\ UNCHANGED <<handler, request, cwd, c, userGroup, cleanPaths, channel, apiKey,
                   selections, opened, upstream, results, sem, wg>>
    /\ UNCHANGED nonFileVars

\* if name == "" { continue }
BatchGetFileStatus_Skip ==
    /\ handler = "BatchGetFileStatus" /\ pc = "loop"
    /\ loopIndex <= Len(request.items)
    /\ request.items[loopIndex] = ""
    /\ loopIndex' = loopIndex + 1
    /\ UNCHANGED <<handler, request, cwd, c, userGroup, pc, cleanPaths, channel, apiKey,
                   selections, opened, upstream, results, statusResults, workers,
                   sem, wg, response>>
    /\ UNCHANGED nonFileVars

\* wg.Add(1); sem <- struct{}{}; go func(fileName string)
BatchGetFileStatus_Spawn ==
    /\ handler = "BatchGetFileStatus" /\ pc = "loop"
    /\ loopIndex <= Len(request.items)
    /\ request.items[loopIndex] # ""
    /\ SemHasRoom(sem, concurrencyLimit)
    /\ wg' = wg + 1
    /\ sem' = sem + 1
    /\ workers' = [workers EXCEPT ![loopIndex] =
                      [state |-> "running", arg |-> request.items[loopIndex], origPath |-> <<>>]]
    /\ loopIndex' = loopIndex + 1
    /\ UNCHANGED <<handler, request, cwd, c, userGroup, pc, cleanPaths, channel, apiKey,
                   selections, opened, upstream, results, statusResults, response>>
    /\ UNCHANGED nonFileVars

\* results[fileName] = ... under the mutex
StoreStatus(map, fileName, result) ==
    [n \in DOMAIN map \cup {fileName} |-> IF n = fileName THEN result ELSE map[n]]

\* the result of one client.Files.Get
LookupOutcome(fileName, found) ==
    IF found THEN FileStatusResult(fileName, "")
    ELSE FileStatusResult(NoFileInfo, "lookup failed")

\* the worker goroutine of one file name: query, store, release
BatchGetFileStatus_Worker(index) ==
    /\ handler = "BatchGetFileStatus"
    /\ index \in DOMAIN workers
    /\ workers[index].state = "running"
    /\ LET fileName == workers[index].arg
       IN  /\ upstream' = upstream \cup {[key |-> apiKey, file |-> fileName, by |-> index]}
           /\ \E found \in BOOLEAN :
                 statusResults' = StoreStatus(statusResults, fileName, LookupOutcome(fileName, found))
    /\ workers' = [workers EXCEPT ![index].state = "done"]
    /\ sem' = sem - 1
    /\ wg' = wg - 1
    /\ UNCHANGED <<handler, request, cwd, c, userGroup, pc, cleanPaths, channel, apiKey,
                   selections, opened, results, loopIndex, response>>
    /\ UNCHANGED nonFileVars

BatchGetFileStatus_Work == \E index \in 1..MaxFiles : BatchGetFileStatus_Worker(index)

\* wg.Wait(); return results, nil; c.JSON(http.StatusOK, response)
BatchGetFileStatus_Respond ==
    /\ handler = "BatchGetFileStatus" /\ pc = "loop"
    /\ loopIndex > Len(request.items)
    /\ WaitDone(wg)
    /\ Respond(200, 0)
    /\ UNCHANGED <<handler, request, cwd, c, userGroup, cleanPaths, channel, apiKey,
                   selections, opened, upstream, results, statusResults, workers,
                   loopIndex, sem, wg>>
    /\ UNCHANGED nonFileVars

NextFiles ==
    \/ UploadFile_Validate
    \/ UploadFile_Open
    \/ UploadFile_GetUser
    \/ UploadFile_GetChannel
    \/ UploadFile_Upload
    \/ BatchUploadFile_Validate
    \/ BatchUploadFile_GetUser
    \/ BatchUploadFile_GetChannel
    \/ BatchUploadFile_InitResults
    \/ BatchUploadFile_Spawn
    \/ BatchUploadFile_Work
    \/ BatchUploadFile_Respond
    \/ BatchGetFileStatus_Validate
    \/ BatchGetFileStatus_GetUser
    \/ BatchGetFileStatus_GetChannel
    \/ BatchGetFileStatus_NewClient
    \/ BatchGetFileStatus_Skip
    \/ BatchGetFileStatus_Spawn
    \/ BatchGetFileStatus_Work
    \/ BatchGetFileStatus_Respond

SpecFiles == InitFiles /\ [][NextFiles]_vars

(***************************************************************************)
(* GeminiImageGenerationHandler.                                           *)
(***************************************************************************)
\* inlineData of a part: a text part, a part lacking data, a part lacking a
\* mime type, two images
PartKinds ==
    { [mimeType |-> "", data |-> ""],
      [mimeType |-> "image/png", data |-> ""],
      [mimeType |-> "", data |-> "img-0"],
      [mimeType |-> "image/png", data |-> "img-1"],
      [mimeType |-> "image/png", data |-> "img-2"] }

\* the mark between two candidates in a flat list of parts
Boundary == [mimeType |-> "|", data |-> "|"]

RECURSIVE SplitCandidates(_)
\* the candidates written as one list of parts with Boundary between candidates
SplitCandidates(tokens) ==
    IF tokens = <<>> THEN << <<>> >>
    ELSE LET rest == SplitCandidates(Tail(tokens))
         IN  IF Head(tokens) = Boundary
             THEN << <<>> >> \o rest
             ELSE << <<Head(tokens)>> \o Head(rest) >> \o Tail(rest)

\* the candidates (each its content.parts) of the upstream responses
CandidateLists ==
    {<<>>} \cup {SplitCandidates(t) : t \in SeqsUpTo(PartKinds \cup {Boundary}, MaxShape)}

TokenCounts == 0..MaxTokens

\* usageMetadata of the upstream body: left out, or reported
UsageMetadatas ==
    {[reported |-> FALSE, promptTokenCount |-> 0, candidatesTokenCount |-> 0,
      totalTokenCount |-> 0]}
    \cup [reported : {TRUE}, promptTokenCount : TokenCounts,
          candidatesTokenCount : TokenCounts, totalTokenCount : TokenCounts]

\* upstream bodies: unreadable, not JSON, or a GeminiImageGenerationResponse
ImageBodies ==
    {[kind |-> k, candidates |-> <<>>, usageMetadata |-> u] :
        k \in {"unreadable", "not json"}, u \in {x \in UsageMetadatas : ~x.reported}}
    \cup [kind : {"json"}, candidates : CandidateLists, usageMetadata : UsageMetadatas]

NoUsage == [set |-> FALSE, PromptTokens |-> 0, CompletionTokens |-> 0, TotalTokens |-> 0]

NoError == [code |-> "", status |-> 0]

InitImage ==
    /\ handler = "GeminiImageGenerationHandler"
    /\ request = InvalidBody
    /\ cwd = <<"/", "a">>
    /\ c = DefaultContext
    /\ userGroup = "default"
    /\ FreshHandler
    /\ ToolsIdle
    /\ \E body \in ImageBodies, counted \in 1..MaxTokens, upstreamStatus \in {200} :
          img = [pc |-> "read", body |-> body, promptTokens |-> counted,
                 status |-> upstreamStatus, geminiResponse |-> <<>>,
                 written |-> <<>>, wroteStatus |-> 0,
                 usage |-> NoUsage, err |-> NoError]

\* json.Unmarshal into GeminiImageGenerationResponse: a usageMetadata the body
\* leaves out is the zero value
Unmarshal(body) ==
    [Candidates |-> body.candidates,
     UsageMetadata |-> [PromptTokenCount |-> body.usageMetadata.promptTokenCount,
                        CandidatesTokenCount |-> body.usageMetadata.candidatesTokenCount,
                        TotalTokenCount |-> body.usageMetadata.totalTokenCount]]

RECURSIVE ImagesOfPartsWithData(_)
\* an inner loop that looks at the data alone
ImagesOfPartsWithData(parts) ==
    IF parts = <<>> THEN <<>>
    ELSE (IF Head(parts).data # ""
          THEN << [B64Json |-> Head(parts).data] >> ELSE <<>>)
         \o ImagesOfPartsWithData(Tail(parts))

RECURSIVE ImagesOfParts(_)
\* the inner loop: one ImageData for each part with a mime type and data
ImagesOfParts(parts) ==
    IF parts = <<>> THEN <<>>
    ELSE (IF Head(parts).mimeType # "" /\ Head(parts).data # ""
          THEN << [B64Json |-> Head(parts).data] >> ELSE <<>>)
         \o ImagesOfParts(Tail(parts))

RECURSIVE ImagesOfCandidates(_)
\* the outer loop over geminiResponse.Candidates
ImagesOfCandidates(candidates) ==
    IF candidates = <<>> THEN <<>>
    ELSE ImagesOfParts(Head(candidates)) \o ImagesOfCandidates(Tail(candidates))

\* usage = &dto.Usage{...} from geminiResponse.UsageMetadata
UsageOf(geminiResponse) ==
    [set |-> TRUE,
     PromptTokens |-> geminiResponse.UsageMetadata.PromptTokenCount,
     CompletionTokens |-> geminiResponse.UsageMetadata.CandidatesTokenCount,
     TotalTokens |-> geminiResponse.UsageMetadata.TotalTokenCount]

Fail(code, status) ==
    img' = [img EXCEPT !.pc = "done", !.err = [code |-> code, status |-> status]]

\* io.ReadAll(resp.Body) and json.Unmarshal
Image_Read ==
    /\ handler = "GeminiImageGenerationHandler" /\ img.pc = "read"
    /\ CASE img.body.kind = "unreadable" -> Fail("read_response_body_failed", 500)
         [] img.body.kind = "not json" -> Fail("unmarshal_response_body_failed", 500)
         [] OTHER -> img' = [img EXCEPT !.pc = "convert", !.geminiResponse = Unmarshal(img.body)]
    /\ UNCHANGED nonImageVars

\* the conversion to dto.ImageResponse, the write to the client, the usage
Image_Convert ==
    /\ handler = "GeminiImageGenerationHandler" /\ img.pc = "convert"
    /\ IF Len(img.geminiResponse.Candidates) = 0
       THEN Fail("no_images", 400)
       ELSE LET data == ImagesOfCandidates(img.geminiResponse.Candidates)
            IN  IF Len(data) = 0
                THEN Fail("no_valid_images", 400)
                ELSE img' = [img EXCEPT !.pc = "done", !.written = data,
                                        !.wroteStatus = img.status,
                                        !.usage = UsageOf(img.geminiResponse)]
    /\ UNCHANGED nonImageVars

NextImage == Image_Read \/ Image_Convert

SpecImage == InitImage /\ [][NextImage]_vars

(***************************************************************************)
(* Properties.                                                             *)
(***************************************************************************)
\* the non-empty elements of a path
Elements(p) == SelectSeq(SplitPath(p), LAMBDA e : e # <<>>)

\* a rooted path whose elements begin with the elements of the base directory
Beneath(p) ==
    LET e == Elements(p)
        b == Elements(allowedBaseDir)
    IN  IsAbs(p) /\ Len(e) >= Len(b) /\ SubSeq(e, 1, Len(b)) = b

\* the non-empty paths of an upload request
Supplied == {request.items[k] : k \in {j \in DOMAIN request.items : request.items[j] # <<>>}}

\* the non-empty file names of a status request
SuppliedNames == {request.items[k] : k \in {j \in DOMAIN request.items : request.items[j] # ""}}

Running == {k \in DOMAIN workers : workers[k].state = "running"}

\* C1: UploadFile and BatchUploadFile open a file only if its cleaned absolute
\* path is the allow-listed directory or lies beneath it; a request with a
\* (non-empty) path elsewhere never leaves validation, opens no file, selects
\* no channel, sends nothing upstream and is answered 403.
C1_OnlyAllowListedPathsOpened ==
    handler \in {"UploadFile", "BatchUploadFile"} =>
        /\ \A f \in opened :
              Beneath(f) /\ \E p \in Supplied : f = CleanAbs(p, cwd)
        /\ (\E p \in Supplied : ~Beneath(CleanAbs(p, cwd))) =>
              /\ opened = {} /\ selections = 0 /\ channel = 0 /\ upstream = {}
              /\ pc \in {"start", "done"}
              /\ pc = "done" => response.status = 403

\* a batch whose first path is inside the directory and whose second is beside it
C1_Witness ==
    /\ handler = "BatchUploadFile" /\ pc = "done" /\ response.status = 403
    /\ Len(request.items) = 2
    /\ Beneath(CleanAbs(request.items[1], cwd))
    /\ request.items[2] = <<"/", "a", "a">>

\* C2: every channel getGeminiChannel returns for a file request is an enabled
\* channel that serves the request's (user group, model), also when the
\* request carries specific_channel_id.
C2_SelectedChannelServes ==
    channel # 0 => Serves(channel, userGroup, modelName)

FormatInt(n) ==
    CASE n = 1 -> "1" [] n = 2 -> "2" [] n = 3 -> "3" [] n = 4 -> "4" [] OTHER -> "0"

\* the context of a later request whose token carries the suffix -<channel_id>
Pinned(id) == [DefaultContext EXCEPT !.specific_channel_id = FormatInt(id)]

\* C3: a 200 response of UploadFile carries as channel_id the id of the channel
\* whose key went into the one upstream upload of the request, and a later
\* request pinned to that id gets the channel of that key.
C3_ResponseNamesUploadChannel ==
    (handler = "UploadFile" /\ response.status = 200) =>
        /\ Cardinality(upstream) = 1
        /\ response.channel_id \in DOMAIN Channels
        /\ \A u \in upstream :
              /\ u.key = Channels[response.channel_id].Key
              /\ \A g \in Groups : \A r \in getGeminiChannel(Pinned(response.channel_id), g, modelName) :
                    ~r.err /\ Channels[r.channel].Key = u.key

C3_Witness ==
    /\ handler = "UploadFile" /\ response.status = 200
    /\ response.channel_id = 2
    /\ c.specific_channel_id = "<unset>"

\* C4: one BatchUploadFile request selects its channel once; every upload of
\* the request carries that channel's key, and the response names that channel.
C4_OneChannelPerBatch ==
    handler = "BatchUploadFile" =>
        /\ selections <= 1
        /\ \A u \in upstream : selections = 1 /\ channel # 0 /\ u.key = Channels[channel].Key
        /\ response.status = 200 =>
              /\ selections = 1
              /\ response.channel_id \in DOMAIN Channels
              /\ \A u \in upstream : u.key = Channels[response.channel_id].Key

C4_Witness ==
    /\ handler = "BatchUploadFile" /\ response.status = 200
    /\ response.channel_id = 1
    /\ Cardinality(upstream) = MaxFiles

\* an element of results is a success with a file or a failure with an error text
Settled(r) ==
    \/ r.Success /\ r.File # NoFile /\ r.Error = ""
    \/ ~r.Success /\ r.File = NoFile /\ r.Error # ""

\* C5: after path validation and channel selection BatchUploadFile goes on
\* until it answers, it answers 200 whatever uploads fail, and every element
\* of results is then a success with a file or a failure with an error text.
C5_BatchAnswers200 ==
    (handler = "BatchUploadFile" /\ channel # 0) =>
        /\ pc # "done" => ENABLED NextFiles
        /\ pc = "done" =>
              /\ response.status = 200
              /\ Len(results) = Len(cleanPaths)
              /\ \A k \in DOMAIN results : Settled(results[k])

C5_Witness ==
    /\ handler = "BatchUploadFile" /\ pc = "done" /\ response.status = 200
    /\ \E j, k \in DOMAIN results :
          /\ results[j].Success
          /\ ~results[k].Success /\ results[k].Error = "no permission"

\* C6: in the BatchUploadFile response every element of results reports the
\* file of its original_path: the path is a non-empty path of the request and
\* the file the worker handled is the cleaned absolute path of it.
C6_OriginalPathOfOutcome ==
    (handler = "BatchUploadFile" /\ response.status = 200) =>
        \A k \in DOMAIN results :
            /\ results[k].OriginalPath \in Supplied
            /\ workers[k].arg = CleanAbs(results[k].OriginalPath, cwd)

\* the concurrency the interface documentation states
documentedConcurrency == 5

\* C7: BatchUploadFile has at most 5 uploads of a request in flight.
C7_AtMostFiveInFlight ==
    handler = "BatchUploadFile" => Cardinality(Running) <= documentedConcurrency

Capacity == IF handler = "BatchUploadFile" THEN concurrency ELSE concurrencyLimit

\* C8: in BatchUploadFile and gemini.BatchGetFileStatus the workers running
\* are exactly the holders of the slots taken, never more than the capacity
\* of the semaphore; no worker is running before the loop reached it.
C8_PoolBoundsWorkers ==
    handler \in {"BatchUploadFile", "BatchGetFileStatus"} =>
        /\ Cardinality(Running) = sem
        /\ sem <= Capacity
        /\ wg = sem
        /\ \A k \in DOMAIN workers : workers[k].state # "idle" => k < loopIndex

\* the pool is full and the loop waits for a slot
C8_Witness ==
    /\ handler = "BatchGetFileStatus" /\ pc = "loop"
    /\ sem = concurrencyLimit
    /\ loopIndex <= Len(request.items)

\* C9: once the client exists gemini.BatchGetFileStatus returns no error and
\* the handler answers 200; no lookup is then still running and the results
\* map has exactly the non-empty names of the request as keys, each with the
\* file of that name or an error text.
C9_StatusResultsComplete ==
    (handler = "BatchGetFileStatus" /\ pc = "done" /\ workers # <<>>) =>
        /\ response.status = 200
        /\ Running = {}
        /\ DOMAIN statusResults = SuppliedNames
        /\ \A n \in DOMAIN statusResults :
              \/ statusResults[n].File = n /\ statusResults[n].Error = ""
              \/ statusResults[n].File = NoFileInfo /\ statusResults[n].Error # ""

C9_Witness ==
    /\ handler = "BatchGetFileStatus" /\ pc = "done" /\ response.status = 200
    /\ DOMAIN statusResults = {"files/a", "files/b"}
    /\ statusResults["files/a"].Error # ""
    /\ statusResults["files/b"].File = "files/b"

\* C10: when GeminiImageGenerationHandler succeeds its usage holds the
\* upstream usageMetadata counts when the provider reports them and the
\* gateway's own count of the request when it reports none.
C10_UsageOfRequest ==
    (handler = "GeminiImageGenerationHandler" /\ img.pc = "done" /\ img.usage.set) =>
        IF img.body.usageMetadata.reported
        THEN /\ img.usage.PromptTokens = img.body.usageMetadata.promptTokenCount
             /\ img.usage.CompletionTokens = img.body.usageMetadata.candidatesTokenCount
             /\ img.usage.TotalTokens = img.body.usageMetadata.totalTokenCount
        ELSE /\ img.usage.PromptTokens = img.promptTokens
             /\ img.usage.TotalTokens = img.usage.PromptTokens + img.usage.CompletionTokens

(***************************************************************************)
(* scripts/channel_manager.go: the channels table and the tool's actions.  *)
(* A Channel row keeps the fields the tool inspects; Key and Other are     *)
(* sequences of one-character strings.                                     *)
(***************************************************************************)
\* most channels of an input file
MaxInput == 2
\* largest id of a row of the table and of a channel of an input file
MaxId == 2

Names == {"a", "b"}

NoText == <<>>

\* rows of the table before the tool runs
OldRows ==
    [Id : 1..MaxId, Name : Names, Type : {25}, Status : {1},
     Key : {<<"o">>}, Other : {NoText}]

\* channels of an input file; id 0 is a channel without an id
InputChannels ==
    [Id : 0..MaxId, Name : Names, Type : {25}, Status : {1},
     Key : {<<"n">>}, Other : {NoText}]

\* Id is the primary key of the table
UniqueIds(rows) == \A r, q \in rows : r.Id = q.Id => r = q

MaxIdOf(rows) ==
    IF rows = {} THEN 0 ELSE CHOOSE m \in {r.Id : r \in rows} : \A r \in rows : r.Id <= m

\* a table with its auto-increment counter
TableOf(rows) == [rows |-> rows, nextId |-> MaxIdOf(rows) + 1]

Tables == {TableOf(rows) : rows \in {R \in SUBSET OldRows : UniqueIds(R)}}

\* the lookup by id alone
MatchesById(rows, ch) == {r \in rows : r.Id = ch.Id /\ r.Id > 0}

\* the lookup by name alone
MatchesByName(rows, ch) == {r \in rows : r.Name = ch.Name}

\* db.Where("name = ? OR (id = ? AND id > 0)", channel.Name, channel.Id)
Matches(rows, ch) ==
    {r \in rows : r.Name = ch.Name \/ (r.Id = ch.Id /\ r.Id > 0)}

\* .First(&existingChannel): the matching row of the smallest primary key
First(found) == CHOOSE r \in found : \A q \in found : r.Id <= q.Id

\* an INSERT in place of the UPDATE
SaveAppends(table, ch) ==
    [table |-> [table EXCEPT !.rows = @ \cup {ch}], err |-> FALSE]

\* db.Save(&channel) of a channel with a primary key: the row of that key
\* takes all the fields of channel
Save(table, ch) ==
    [table |-> [table EXCEPT !.rows = {r \in @ : r.Id # ch.Id} \cup {ch}],
     err |-> FALSE]

\* db.Create(&channel): id 0 takes the next auto-increment value; an id
\* that is already in the table is a duplicate-key error
Create(table, ch) ==
    IF ch.Id = 0
    THEN [table |-> [rows |-> table.rows \cup {[ch EXCEPT !.Id = table.nextId]},
                     nextId |-> table.nextId + 1],
          err |-> FALSE]
    ELSE IF \E r \in table.rows : r.Id = ch.Id
    THEN [table |-> table, err |-> TRUE]
    ELSE [table |-> [rows |-> table.rows \cup {ch},
                     nextId |-> IF ch.Id >= table.nextId
                                THEN ch.Id + 1 ELSE table.nextId],
          err |-> FALSE]

\* db.Exec("DELETE FROM channels"): the counter is not reset
DeleteAll(table) == [table EXCEPT !.rows = {}]

RECURSIVE SortById(_)
\* query.Find(&channels): the rows in primary-key order
SortById(rows) ==
    IF rows = {} THEN <<>>
    ELSE LET r == First(rows) IN <<r>> \o SortById(rows \ {r})

\* getAllChannels: a negative filter selects every row
getAllChannels(table, filterType, filterStatus) ==
    SortById({r \in table.rows :
                 /\ (filterType >= 0 => r.Type = filterType)
                 /\ (filterStatus >= 0 => r.Status = filterStatus)})

NewResult == [Total |-> 0, Success |-> 0, Failed |-> 0, Skipped |-> 0]

\* an ImportResult after one more channel was processed
Counted(result, err) ==
    IF err THEN [result EXCEPT !.Failed = @ + 1]
    ELSE [result EXCEPT !.Success = @ + 1]

\* the guard with every run taken for a real one
WriteAllowedAlways(dryRun) == TRUE

\* if !dryRun: the guard of every statement that writes
WriteAllowed(dryRun) == ~dryRun

\* processChannelImport on the table: the table and result.Skipped it
\* leaves, and whether it returns an error
processChannelImport(table, ch, skipExisting, updateExisting, dryRun, result) ==
    LET found == Matches(table.rows, ch)
        exists == found # {}
    IN  IF exists /\ skipExisting /\ ~updateExisting
        THEN [table |-> table, result |-> [result EXCEPT !.Skipped = @ + 1], err |-> FALSE]
        ELSE IF WriteAllowed(dryRun) /\ exists /\ updateExisting
        THEN LET saved == Save(table, [ch EXCEPT !.Id = First(found).Id])
             IN  [table |-> saved.table, result |-> result, err |-> saved.err]
        ELSE IF WriteAllowed(dryRun) /\ ~exists
        THEN LET created == Create(table, [ch EXCEPT !.Id = 0])
             IN  [table |-> created.table, result |-> result, err |-> created.err]
        ELSE [table |-> table, result |-> result, err |-> FALSE]

\* the flags of channel_manager.go with their defaults
DefaultFlags ==
    [action |-> "export", input |-> "", output |-> "", format |-> "json",
     help |-> FALSE, maskKeys |-> TRUE, filterType |-> -1, filterStatus |-> -1,
     skipExisting |-> TRUE, updateExisting |-> FALSE, dryRun |-> FALSE]

StillRunning == -1

\* the process after flag.Parse
StartManager(flags) ==
    [pc |-> "main", flags |-> flags, data |-> <<>>, i |-> 0, result |-> NewResult,
     channels |-> <<>>, exit |-> StillRunning, printed |-> ""]

\* the process ends with an exit status: 0, or 1 after log.Fatalf
Exit(status, printed) ==
    mgr' = [mgr EXCEPT !.pc = "done", !.exit = status, !.printed = printed]

\* a file of the disk and os.Create of a file of that name
File(name, format, channels) ==
    [name |-> name, valid |-> TRUE, format |-> format, channels |-> channels]

WriteFile(files, file) == {f \in files : f.name # file.name} \cup {file}

\* main: help, the connection to the database, the switch on the action
Manager_Main ==
    /\ mgr.pc = "main"
    /\ IF mgr.flags.help
       THEN Exit(0, "help")
       ELSE \E connected \in BOOLEAN :
               IF ~connected \/ mgr.flags.action \notin {"export", "import", "backup", "restore"}
               THEN Exit(1, "fatal")
               ELSE mgr' = [mgr EXCEPT !.pc = mgr.flags.action]
    /\ UNCHANGED <<db, disk>>
    /\ UNCHANGED nonManagerVars

\* loadImportData: os.Open and the JSON decoder
loadImportData(files, inputFile) ==
    IF \E f \in files : f.name = inputFile /\ f.valid
    THEN [err |-> FALSE, Channels |-> (CHOOSE f \in files : f.name = inputFile).channels]
    ELSE [err |-> TRUE, Channels |-> <<>>]

\* the head of handleImport and handleRestore: the input file is loaded
LoadInput(next) ==
    LET data == loadImportData(disk, mgr.flags.input)
    IN  IF mgr.flags.input = "" \/ data.err
        THEN Exit(1, "fatal")
        ELSE mgr' = [mgr EXCEPT !.pc = next, !.data = data.Channels, !.i = 1,
                                !.result = [NewResult EXCEPT !.Total = Len(data.Channels)]]

handleImport_Load ==
    /\ mgr.pc = "import"
    /\ LoadInput("import_loop")
    /\ UNCHANGED <<db, disk>>
    /\ UNCHANGED nonManagerVars

\* one turn of the loop of handleImport
handleImport_Channel ==
    /\ mgr.pc = "import_loop" /\ mgr.i <= Len(mgr.data)
    /\ LET done == processChannelImport(db, mgr.data[mgr.i], mgr.flags.skipExisting,
                                        mgr.flags.updateExisting, mgr.flags.dryRun,
                                        mgr.result)
       IN  /\ db' = done.table
           /\ mgr' = [mgr EXCEPT !.i = @ + 1, !.result = Counted(done.result, done.err)]
    /\ UNCHANGED disk
    /\ UNCHANGED nonManagerVars

handleImport_Print ==
    /\ mgr.pc = "import_loop" /\ mgr.i > Len(mgr.data)
    /\ Exit(0, IF mgr.flags.dryRun THEN "dry-run import" ELSE "imported")
    /\ UNCHANGED <<db, disk>>
    /\ UNCHANGED nonManagerVars

\* handleBackup: every channel, unmasked, into outputPath
BackupFile(table, outputFile) ==
    File(IF outputFile = "" THEN "channels_backup_TIMESTAMP.json" ELSE outputFile,
         "json", getAllChannels(table, -1, -1))

handleBackup ==
    /\ mgr.pc = "backup"
    /\ \E created \in BOOLEAN :
          IF created
          THEN /\ disk' = WriteFile(disk, BackupFile(db, mgr.flags.output))
               /\ Exit(0, "backed up")
          ELSE /\ disk' = disk
               /\ Exit(1, "fatal")
    /\ UNCHANGED db
    /\ UNCHANGED nonManagerVars

handleRestore_Load ==
    /\ mgr.pc = "restore"
    /\ LoadInput("restore_clear")
    /\ UNCHANGED <<db, disk>>
    /\ UNCHANGED nonManagerVars

\* the pre-restore backup, whose failure is only logged, and the DELETE
handleRestore_Clear ==
    /\ mgr.pc = "restore_clear"
    /\ IF ~WriteAllowed(mgr.flags.dryRun)
       THEN UNCHANGED <<db, disk>>
       ELSE /\ \E created \in BOOLEAN :
                  disk' = IF created
                          THEN WriteFile(disk, BackupFile(db, "pre_restore_backup_TIMESTAMP.json"))
                          ELSE disk
            /\ db' = DeleteAll(db)
    /\ mgr' = [mgr EXCEPT !.pc = "restore_loop"]
    /\ UNCHANGED nonManagerVars

\* one turn of the loop of handleRestore
handleRestore_Channel ==
    /\ mgr.pc = "restore_loop" /\ mgr.i <= Len(mgr.data)
    /\ IF ~WriteAllowed(mgr.flags.dryRun)
       THEN /\ db' = db
            /\ mgr' = [mgr EXCEPT !.i = @ + 1, !.result = Counted(@, FALSE)]
       ELSE LET created == Create(db, mgr.data[mgr.i])
            IN  /\ db' = created.table
                /\ mgr' = [mgr EXCEPT !.i = @ + 1, !.result = Counted(@, created.err)]
    /\ UNCHANGED disk
    /\ UNCHANGED nonManagerVars

\* printRestoreResult and return nil
handleRestore_Print ==
    /\ mgr.pc = "restore_loop" /\ mgr.i > Len(mgr.data)
    /\ Exit(0, IF mgr.flags.dryRun THEN "dry-run restore" ELSE "restored to the backup state")
    /\ UNCHANGED <<db, disk>>
    /\ UNCHANGED nonManagerVars

\* the text common.MaskString puts in place of a secret
Mask == <<"*", "*", "*", "m", "a", "s", "k", "e", "d", "*", "*", "*">>

\* common.MaskString
MaskString(str) ==
    IF Len(str) <= 8 THEN Mask
    ELSE SubSeq(str, 1, 4) \o Mask \o SubSeq(str, Len(str) - 3, Len(str))

\* maskSensitiveData masking the keys alone
maskKeyOnly(ch) ==
    [ch EXCEPT !.Key = IF @ # NoText THEN MaskString(@) ELSE @]

\* one turn of the loop of maskSensitiveData
maskChannel(ch) ==
    [ch EXCEPT !.Key = IF @ # NoText THEN MaskString(@) ELSE @,
               !.Other = IF @ # NoText THEN MaskString(@) ELSE @]

\* maskSensitiveData: the slice of the export, not the table
maskSensitiveData(channels) == [k \in DOMAIN channels |-> maskChannel(channels[k])]

\* what exportToJSON, exportToCSV and exportToTXT write of a channel:
\* the text report has no line for Other
ExportRecord(format, ch) ==
    IF format = "txt"
    THEN [Id |-> ch.Id, Name |-> ch.Name, Type |-> ch.Type, Status |-> ch.Status,
          Key |-> ch.Key]
    ELSE ch

\* the format a -format value selects and the default output path of it
FormatOf(format) == IF format \in {"csv", "txt"} THEN format ELSE "json"

ExportPath(outputFile, format) ==
    IF outputFile # "" THEN outputFile
    ELSE CASE FormatOf(format) = "csv" -> "channels_export_TIMESTAMP.csv"
           [] FormatOf(format) = "txt" -> "channels_export_TIMESTAMP.txt"
           [] OTHER -> "channels_export_TIMESTAMP.json"

handleExport_Query ==
    /\ mgr.pc = "export"
    /\ \E queried \in BOOLEAN :
          IF queried
          THEN mgr' = [mgr EXCEPT !.pc = "export_mask",
                          !.channels = getAllChannels(db, mgr.flags.filterType,
                                                      mgr.flags.filterStatus)]
          ELSE Exit(1, "fatal")
    /\ UNCHANGED <<db, disk>>
    /\ UNCHANGED nonManagerVars

handleExport_Mask ==
    /\ mgr.pc = "export_mask"
    /\ mgr' = [mgr EXCEPT !.pc = "export_write",
                          !.channels = IF mgr.flags.maskKeys
                                       THEN maskSensitiveData(@) ELSE @]
    /\ UNCHANGED <<db, disk>>
    /\ UNCHANGED nonManagerVars

\* os.MkdirAll, then the writer of the format
handleExport_Write ==
    /\ mgr.pc = "export_write"
    /\ \E written \in BOOLEAN :
          IF written
          THEN /\ disk' = WriteFile(disk,
                     File(ExportPath(mgr.flags.output, mgr.flags.format),
                          FormatOf(mgr.flags.format),
                          [k \in DOMAIN mgr.channels |->
                              ExportRecord(FormatOf(mgr.flags.format), mgr.channels[k])]))
               /\ Exit(0, "exported")
          ELSE /\ disk' = disk
               /\ Exit(1, "fatal")
    /\ UNCHANGED db
    /\ UNCHANGED nonManagerVars

(***************************************************************************)
(* Runs of channel_manager.go.                                             *)
(***************************************************************************)
\* longest stored key (in bytes) of the exported tables
MaxKeyLen == 9

KeyChars == <<"s", "k", "-", "1", "2", "3", "4", "5", "6", "7">>

\* a stored key that has the form of a masked key, as a key taken from a
\* masked export has
MaskedKey == SubSeq(KeyChars, 1, 4) \o Mask \o SubSeq(KeyChars, 5, 8)

\* stored values of Key and Other
ExportKeys == {SubSeq(KeyChars, 1, n) : n \in 0..MaxKeyLen} \cup {MaskedKey}

\* the tables of the export runs: two rows of different type and status
ExportTables ==
    {TableOf({[Id |-> 1, Name |-> "a", Type |-> 25, Status |-> 1, Key |-> k, Other |-> o],
              [Id |-> 2, Name |-> "b", Type |-> 1, Status |-> 2, Key |-> o, Other |-> NoText]}) :
        k \in ExportKeys, o \in ExportKeys}

\* no request is served while a tool runs
NoRequest(program) ==
    /\ handler = program
    /\ request = InvalidBody
    /\ cwd = <<"/", "a">>
    /\ c = DefaultContext
    /\ userGroup = "default"
    /\ FreshHandler
    /\ img = ImgIdle

\* an input file that is not JSON
BadFile == [name |-> "bad.json", valid |-> FALSE, format |-> "json", channels |-> <<>>]

\* the input files and flags of the import and restore runs
InitImport ==
    /\ db \in Tables
    /\ \E data \in SeqsUpTo(InputChannels, MaxInput) :
          disk = {File("in.json", "json", data), BadFile}
    /\ \E skipExisting \in BOOLEAN, updateExisting \in BOOLEAN, dryRun \in BOOLEAN :
          mgr = StartManager([DefaultFlags EXCEPT !.action = "import", !.input = "in.json",
                                 !.skipExisting = skipExisting,
                                 !.updateExisting = updateExisting, !.dryRun = dryRun])

InitRestore ==
    /\ db \in Tables
    /\ \E data \in SeqsUpTo(InputChannels, MaxInput) :
          disk = {File("in.json", "json", data), BadFile}
    /\ \E dryRun \in BOOLEAN :
          mgr = StartManager([DefaultFlags EXCEPT !.action = "restore", !.input = "in.json",
                                 !.dryRun = dryRun])

\* runs that end before the table is read: no input, a bad input, -help,
\* an unknown action
InitRefused ==
    /\ db \in Tables
    /\ disk = {BadFile}
    /\ \E action \in {"import", "restore", "purge"}, input \in {"", "in.json", "bad.json"},
          help \in BOOLEAN, dryRun \in BOOLEAN :
          mgr = StartManager([DefaultFlags EXCEPT !.action = action, !.input = input,
                                 !.help = help, !.dryRun = dryRun])

InitBackup ==
    /\ db \in Tables
    /\ disk = {}
    /\ \E output \in {"", "full_backup.json"} :
          mgr = StartManager([DefaultFlags EXCEPT !.action = "backup", !.output = output])

InitExport ==
    /\ db \in ExportTables
    /\ disk = {}
    /\ \E format \in {"json", "csv", "txt", "xml"}, maskKeys \in BOOLEAN,
          filterType \in {-1, 25}, filterStatus \in {-1, 1} :
          mgr = StartManager([DefaultFlags EXCEPT !.format = format, !.maskKeys = maskKeys,
                                 !.filterType = filterType,
                                 !.filterStatus = filterStatus])

InitManager ==
    /\ NoRequest("channel_manager.go")
    /\ sh = [pc |-> "idle"]
    /\ ledger = [pc |-> "idle"]
    /\ MoreIdle
    /\ (InitImport \/ InitRestore \/ InitRefused \/ InitBackup \/ InitExport)

NextManager ==
    \/ Manager_Main
    \/ handleImport_Load
    \/ handleImport_Channel
    \/ handleImport_Print
    \/ handleBackup
    \/ handleRestore_Load
    \/ handleRestore_Clear
    \/ handleRestore_Channel
    \/ handleRestore_Print
    \/ handleExport_Query
    \/ handleExport_Mask
    \/ handleExport_Write

SpecManager == InitManager /\ [][NextManager]_vars

(***************************************************************************)
(* Properties of channel_manager.go.                                       *)
(***************************************************************************)
\* the input channel the import loop is about to process
ImportTurn == mgr.pc = "import_loop" /\ mgr.i <= Len(mgr.data)

\* a row of the table has the name, or the positive id, of the input channel
MatchedBy(rows, ch) == {r \in rows : r.Name = ch.Name \/ (ch.Id > 0 /\ r.Id = ch.Id)}

\* C11: with skip-existing=true and update-existing=false an import never
\* changes or deletes a row; an input channel that matches a row by name or
\* by positive id is skipped and counted in Skipped; a channel that is
\* inserted matches no row and gets an id no row has.
C11_DefaultImportKeepsRows ==
    [][(mgr.flags.action = "import" /\ mgr.flags.skipExisting /\ ~mgr.flags.updateExisting) =>
          /\ db.rows \subseteq db'.rows
          /\ IF ImportTurn
             THEN LET ch == mgr.data[mgr.i]
                  IN  IF MatchedBy(db.rows, ch) # {}
                      THEN /\ db' = db
                           /\ mgr'.result.Skipped = mgr.result.Skipped + 1
                      ELSE /\ mgr'.result.Skipped = mgr.result.Skipped
                           /\ Cardinality(db'.rows \ db.rows) = (IF mgr.flags.dryRun THEN 0 ELSE 1)
                           /\ \A r \in db'.rows \ db.rows :
                                 /\ r.Id > 0
                                 /\ r.Id \notin {q.Id : q \in db.rows}
                                 /\ [r EXCEPT !.Id = ch.Id] = ch
             ELSE db' = db]_vars

C11_Witness ==
    /\ mgr.pc = "done" /\ mgr.flags.action = "import" /\ mgr.exit = 0
    /\ mgr.flags.skipExisting /\ ~mgr.flags.updateExisting /\ ~mgr.flags.dryRun
    /\ mgr.result.Skipped = 1
    /\ \E r, q \in db.rows : r.Key = <<"o">> /\ q.Key = <<"n">>

\* C12: with -update-existing a real import overwrites, for an input channel
\* that matches a row, exactly one matching row with the fields of the input
\* under the row's id; no row is added and no other row changes.
C12_UpdateOverwritesOneRow ==
    [][(mgr.flags.action = "import" /\ mgr.flags.updateExisting /\ ~mgr.flags.dryRun
        /\ ImportTurn /\ MatchedBy(db.rows, mgr.data[mgr.i]) # {}) =>
          \E r \in MatchedBy(db.rows, mgr.data[mgr.i]) :
             /\ db'.rows = (db.rows \ {r}) \cup {[mgr.data[mgr.i] EXCEPT !.Id = r.Id]}
             /\ mgr'.result.Success = mgr.result.Success + 1]_vars

C12_Witness ==
    /\ mgr.pc = "done" /\ mgr.flags.action = "import" /\ mgr.exit = 0
    /\ mgr.flags.updateExisting /\ ~mgr.flags.dryRun
    /\ Len(mgr.data) = 1 /\ mgr.data[1].Id = 2
    /\ db.rows = {[Id |-> 1, Name |-> mgr.data[1].Name, Type |-> 25, Status |-> 1,
                   Key |-> <<"n">>, Other |-> NoText],
                  [Id |-> 2, Name |-> "b", Type |-> 25, Status |-> 1,
                   Key |-> <<"o">>, Other |-> NoText]}

\* C13: with -dry-run neither import nor restore changes the table or
\* writes a file, whatever the input and the other flags.
C13_DryRunWritesNothing ==
    [][(mgr.flags.action \in {"import", "restore"} /\ mgr.flags.dryRun) =>
          (db' = db /\ disk' = disk)]_vars

C13_Witness ==
    /\ mgr.pc = "done" /\ mgr.flags.action = "restore" /\ mgr.flags.dryRun
    /\ mgr.printed = "dry-run restore"
    /\ Len(mgr.data) = 2 /\ mgr.result.Success = 2
    /\ db.rows # {}

\* C14: after a real restore that returned no error the table holds exactly
\* the channels of the input file.
C14_RestoredTableIsTheFile ==
    (mgr.pc = "done" /\ mgr.flags.action = "restore" /\ ~mgr.flags.dryRun
     /\ mgr.exit = 0 /\ mgr.printed = "restored to the backup state") =>
        /\ \A k \in DOMAIN mgr.data :
              \E r \in db.rows :
                 [r EXCEPT !.Id = mgr.data[k].Id] = mgr.data[k]
                 /\ (mgr.data[k].Id > 0 => r.Id = mgr.data[k].Id)
        /\ \A r \in db.rows :
              \E k \in DOMAIN mgr.data : [r EXCEPT !.Id = mgr.data[k].Id] = mgr.data[k]

\* the files an export run with mask-keys has written
MaskedExports ==
    IF mgr.flags.action = "export" /\ mgr.flags.maskKeys
    THEN {f \in disk : f.name = ExportPath(mgr.flags.output, mgr.flags.format)}
    ELSE {}

\* the row of the table a written record is the record of
StoredRow(rec) == CHOOSE r \in db.rows : r.Id = rec.Id

\* first 4 bytes + the mask + last 4 bytes, the mask alone up to 8 bytes
MaskedForm(secret) ==
    IF Len(secret) <= 8 THEN Mask
    ELSE <<secret[1], secret[2], secret[3], secret[4]>> \o Mask
         \o <<secret[Len(secret) - 3], secret[Len(secret) - 2],
              secret[Len(secret) - 1], secret[Len(secret)]>>

\* the secret is 4 bytes, the mask and 4 bytes
HasMaskedForm(secret) == Len(secret) = Len(Mask) + 8 /\ SubSeq(secret, 5, Len(Mask) + 4) = Mask

\* the secrets a record of the format carries
SecretFields(rec) == {"Key", "Other"} \cap DOMAIN rec

\* C17 as stated: with mask-keys no record an export writes holds a stored
\* non-empty Key or Other; each is written in its masked form, in the json,
\* csv and txt formats alike.
C17_NoStoredSecretWritten ==
    \A f \in MaskedExports : \A k \in DOMAIN f.channels :
       \A field \in SecretFields(f.channels[k]) :
          LET stored == StoredRow(f.channels[k])[field]
          IN  stored # NoText =>
                 /\ f.channels[k][field] = MaskedForm(stored)
                 /\ f.channels[k][field] # stored

\* C17 as amended: with mask-keys every stored non-empty Key or Other is
\* written in its masked form in every format, which differs from the stored
\* value unless that value already has the masked form; the export leaves
\* the table as it was.
C17_SecretsWrittenMasked ==
    /\ [](\A f \in MaskedExports : \A k \in DOMAIN f.channels :
             \A field \in SecretFields(f.channels[k]) :
                LET stored == StoredRow(f.channels[k])[field]
                IN  stored # NoText =>
                       /\ f.channels[k][field] = MaskedForm(stored)
                       /\ (~HasMaskedForm(stored) => f.channels[k][field] # stored))
    /\ [][mgr.flags.action = "export" => db' = db]_vars

C17_Witness ==
    /\ mgr.pc = "done" /\ mgr.exit = 0
    /\ \E f \in MaskedExports :
          /\ f.format = "csv" /\ Len(f.channels) = 2
          /\ f.channels[1].Key = <<"s", "k", "-", "1">> \o Mask \o <<"3", "4", "5", "6">>
          /\ f.channels[1].Other = Mask
          /\ f.channels[2].Key = Mask
    /\ \E r \in db.rows : r.Key = SubSeq(KeyChars, 1, 9)

(***************************************************************************)
(* scripts/reset_database.sh.  The script runs channel_manager.go as a     *)
(* child process and waits for its exit status.                            *)
(***************************************************************************)
\* the options of reset_database.sh as main parses them
ResetArgs ==
    [backup_only : BOOLEAN, reset_only : BOOLEAN, dry_run : BOOLEAN,
     restore_file : {"", "backup.json", "missing.json"}, help : {FALSE},
     unknown : {FALSE}]
    \cup [backup_only : {FALSE}, reset_only : {FALSE}, dry_run : BOOLEAN,
          restore_file : {""}, help : BOOLEAN, unknown : BOOLEAN]

\* what the operator may type at a prompt
Replies == {"RESET", "reset", "RESET ", "y", "Y", "n", ""}

\* the script after its options are parsed
StartScript(script, args) ==
    [script |-> script, args |-> args, pc |-> "main", reply |-> "",
     backed_up |-> FALSE, commands |-> <<>>, listed |-> <<>>, exit |-> StillRunning]

\* exit N
ScriptExit(status) == sh' = [sh EXCEPT !.pc = "exit", !.exit = status]

\* go run channel_manager.go with the flags: the child is started and the
\* script waits at pc next_
GoRun(flags, next_) ==
    /\ mgr' = StartManager(flags)
    /\ sh' = [sh EXCEPT !.pc = next_, !.commands = Append(@, flags)]

\* the child has ended
ChildDone == mgr.pc = "done"

\* $BACKUP_DIR/reset_backup_${TIMESTAMP}.json
ResetBackupFile == "./backups/reset_backup_TIMESTAMP.json"

TempExport == "/tmp/count_export_PID.json"

EmptyBackup == "/tmp/empty_backup_PID.json"

\* any reply taken for the confirmation
ConfirmedByAnyReply(reply) == TRUE

\* [ "$REPLY" != "RESET" ] does not hold
Confirmed(reply) == reply = "RESET"

\* [[ $REPLY =~ ^[Yy]$ ]]
Yes(reply) == reply \in {"y", "Y"}

\* main up to the restore branch: options, check_dependencies,
\* create_backup_dir
Reset_Main ==
    /\ sh.script = "reset_database.sh" /\ sh.pc = "main"
    /\ IF sh.args.help THEN ScriptExit(0)
       ELSE IF sh.args.unknown THEN ScriptExit(1)
       ELSE \E dependencies \in BOOLEAN :
               IF ~dependencies THEN ScriptExit(1)
               ELSE IF sh.args.restore_file # ""
               THEN sh' = [sh EXCEPT !.pc = "restore_database"]
               ELSE sh' = [sh EXCEPT !.pc = "count_current_data"]
    /\ UNCHANGED <<mgr, disk>>
    /\ UNCHANGED nonScriptVars

\* restore_database: the file test, the prompt, the restore
restore_database ==
    /\ sh.script = "reset_database.sh" /\ sh.pc = "restore_database"
    /\ IF ~\E f \in disk : f.name = sh.args.restore_file
       THEN ScriptExit(1) /\ mgr' = mgr
       ELSE \E reply \in Replies :
               IF Yes(reply)
               THEN GoRun([DefaultFlags EXCEPT !.action = "restore",
                                               !.input = sh.args.restore_file],
                          "restore_wait")
               ELSE ScriptExit(1) /\ mgr' = mgr
    /\ UNCHANGED disk
    /\ UNCHANGED nonScriptVars

\* restore_database returns the status of the restore; exit $?
restore_database_Done ==
    /\ sh.script = "reset_database.sh" /\ sh.pc = "restore_wait" /\ ChildDone
    /\ ScriptExit(IF mgr.exit = 0 THEN 0 ELSE 1)
    /\ UNCHANGED <<mgr, disk>>
    /\ UNCHANGED nonScriptVars

\* count_current_data: an export into a temporary file
count_current_data ==
    /\ sh.script = "reset_database.sh" /\ sh.pc = "count_current_data"
    /\ GoRun([DefaultFlags EXCEPT !.action = "export", !.output = TempExport], "count_wait")
    /\ UNCHANGED disk
    /\ UNCHANGED nonScriptVars

\* the operations the --dry-run branch of main echoes, in order
DryRunListing(args) ==
    (IF ~args.backup_only THEN <<"create_backup">> ELSE <<>>)
    \o (IF ~args.reset_only /\ ~args.backup_only THEN <<"reset_database">> ELSE <<>>)

\* the functions the branches of main after the dry-run branch call, in
\* order: --backup-only, --reset-only, the full flow
Operations(args) ==
    IF args.backup_only THEN <<"create_backup">>
    ELSE IF args.reset_only THEN <<"reset_database">>
    ELSE <<"create_backup", "reset_database">>

\* the temporary file is removed; then the --dry-run, --backup-only and
\* --reset-only branches of main
count_current_data_Done ==
    /\ sh.script = "reset_database.sh" /\ sh.pc = "count_wait" /\ ChildDone
    /\ disk' = IF mgr.exit = 0 THEN {f \in disk : f.name # TempExport} ELSE disk
    /\ IF sh.args.dry_run
       THEN sh' = [sh EXCEPT !.pc = "exit", !.exit = 0,
                             !.listed = DryRunListing(sh.args)]
       ELSE sh' = [sh EXCEPT !.pc = Head(Operations(sh.args))]
    /\ UNCHANGED mgr
    /\ UNCHANGED nonScriptVars

\* create_backup
create_backup ==
    /\ sh.script = "reset_database.sh" /\ sh.pc = "create_backup"
    /\ GoRun([DefaultFlags EXCEPT !.action = "backup", !.output = ResetBackupFile],
             "backup_wait")
    /\ UNCHANGED disk
    /\ UNCHANGED nonScriptVars

\* create_backup returns; --backup-only exits with its status, the full
\* flow goes on only after a backup that succeeded
create_backup_Done ==
    /\ sh.script = "reset_database.sh" /\ sh.pc = "backup_wait" /\ ChildDone
    /\ IF sh.args.backup_only THEN ScriptExit(IF mgr.exit = 0 THEN 0 ELSE 1)
       ELSE IF mgr.exit = 0
       THEN sh' = [sh EXCEPT !.pc = "reset_database", !.backed_up = TRUE]
       ELSE ScriptExit(1)
    /\ UNCHANGED <<mgr, disk>>
    /\ UNCHANGED nonScriptVars

\* reset_database: the prompt, the empty backup file, the restore of it
reset_database ==
    /\ sh.script = "reset_database.sh" /\ sh.pc = "reset_database"
    /\ \E reply \in Replies :
          IF Confirmed(reply)
          THEN /\ disk' = WriteFile(disk, File(EmptyBackup, "json", <<>>))
               /\ mgr' = StartManager([DefaultFlags EXCEPT !.action = "restore",
                                                             !.input = EmptyBackup])
               /\ sh' = [sh EXCEPT !.pc = "reset_wait", !.reply = reply,
                            !.commands = Append(@, [DefaultFlags EXCEPT
                                                       !.action = "restore",
                                                       !.input = EmptyBackup])]
          ELSE /\ sh' = [sh EXCEPT !.pc = "exit", !.exit = 1, !.reply = reply]
               /\ UNCHANGED <<mgr, disk>>
    /\ UNCHANGED nonScriptVars

\* the empty backup file is removed; the status of the restore decides
reset_database_Done ==
    /\ sh.script = "reset_database.sh" /\ sh.pc = "reset_wait" /\ ChildDone
    /\ disk' = {f \in disk : f.name # EmptyBackup}
    /\ ScriptExit(IF mgr.exit = 0 THEN 0 ELSE 1)
    /\ UNCHANGED mgr
    /\ UNCHANGED nonScriptVars

\* a backup the operator may restore from
OperatorBackups == {<<>>, <<[Id |-> 1, Name |-> "a", Type |-> 25, Status |-> 1,
                            Key |-> <<"n">>, Other |-> NoText]>>}

InitReset ==
    /\ NoRequest("reset_database.sh")
    /\ ledger = [pc |-> "idle"]
    /\ MoreIdle
    /\ db \in Tables
    /\ \E data \in OperatorBackups : disk = {File("backup.json", "json", data)}
    /\ mgr = [pc |-> "idle"]
    /\ \E args \in ResetArgs : sh = StartScript("reset_database.sh", args)

NextReset ==
    \/ Reset_Main
    \/ restore_database
    \/ restore_database_Done
    \/ count_current_data
    \/ count_current_data_Done
    \/ create_backup
    \/ create_backup_Done
    \/ reset_database
    \/ reset_database_Done
    \/ Manager_Main
    \/ handleBackup
    \/ handleRestore_Load
    \/ handleRestore_Clear
    \/ handleRestore_Channel
    \/ handleRestore_Print
    \/ handleExport_Query
    \/ handleExport_Mask
    \/ handleExport_Write

SpecReset == InitReset /\ [][NextReset]_vars

(***************************************************************************)
(* Properties of reset_database.sh.                                        *)
(***************************************************************************)
\* the full flow: neither --reset-only nor --restore
FullFlow ==
    /\ sh.script = "reset_database.sh"
    /\ ~sh.args.reset_only /\ sh.args.restore_file = ""

\* C15: in the full flow of reset_database.sh a channel row is deleted only
\* after this run has created a backup of the current rows and the operator
\* has typed exactly RESET; after a failed backup or any other reply no row
\* is deleted.
C15_ClearOnlyAfterBackupAndReset ==
    [][(FullFlow /\ db'.rows # db.rows) =>
          /\ sh.backed_up
          /\ sh.reply = "RESET"
          /\ \E f \in disk :
                f.name = ResetBackupFile /\ f.channels = getAllChannels(db, -1, -1)]_vars

C15_Witness ==
    /\ FullFlow /\ sh.pc = "exit" /\ sh.exit = 0
    /\ ~sh.args.dry_run /\ ~sh.args.backup_only /\ ~sh.args.help
    /\ sh.reply = "RESET"
    /\ db.rows = {}
    /\ \E f \in disk : f.name = ResetBackupFile /\ Len(f.channels) = 2

\* the commands of the run that write a file or a row
WritingCommands ==
    {k \in DOMAIN sh.commands : sh.commands[k].action \in {"backup", "restore", "import"}
                                /\ ~sh.commands[k].dryRun}

\* C16: a run of reset_database.sh with --dry-run, whatever the other
\* options, creates no backup, clears nothing and restores nothing.
C16_DryRunOnlyShows ==
    (sh.script = "reset_database.sh" /\ sh.args.dry_run) =>
        /\ WritingCommands = {}
        /\ ~\E f \in disk : f.name = ResetBackupFile

(***************************************************************************)
(* update.sh (set -e).  The commands the script runs are recorded in       *)
(* sh.commands; what git, docker and the operator answer is any outcome.   *)
(***************************************************************************)
\* the options as the for loop over "$@" leaves them
UpdateArgs == [SKIP_BACKUP : BOOLEAN, NO_REBUILD : BOOLEAN, PULL_ONLY : BOOLEAN]

StartUpdate(args) ==
    [script |-> "update.sh", args |-> args, NO_REBUILD |-> args.NO_REBUILD,
     pc |-> "check_directory", commands |-> <<>>, exit |-> StillRunning]

\* the script goes on to the step next_ after running the commands
Ran(cmds, next_) == sh' = [sh EXCEPT !.pc = next_, !.commands = @ \o cmds]

\* the script ends with the status after running the commands
RanAndExit(cmds, status) ==
    sh' = [sh EXCEPT !.pc = "exit", !.exit = status, !.commands = @ \o cmds]

UpdateStep(at) == sh.script = "update.sh" /\ sh.pc = at

\* the variables update.sh and run_export.sh do not touch
nonShellVars == <<fileVars, img, db, disk, mgr, ledger, moreVars>>

\* check_directory and create_backup_dir
check_directory ==
    /\ UpdateStep("check_directory")
    /\ \E composeFile \in BOOLEAN, made \in BOOLEAN :
          IF ~composeFile THEN RanAndExit(<<>>, 1)
          ELSE IF ~made THEN RanAndExit(<<"mkdir -p">>, 1)
          ELSE Ran(<<>>, "backup_database")
    /\ UNCHANGED nonShellVars

\* backup_database: a failed dump is a warning, a failed gzip ends the script
backup_database ==
    /\ UpdateStep("backup_database")
    /\ IF sh.args.SKIP_BACKUP THEN Ran(<<>>, "backup_data")
       ELSE \E dumped \in BOOLEAN, zipped \in BOOLEAN :
               IF ~dumped THEN Ran(<<"mysqldump">>, "backup_data")
               ELSE IF ~zipped THEN RanAndExit(<<"mysqldump", "gzip">>, 1)
               ELSE Ran(<<"mysqldump", "gzip", "find -delete">>, "backup_data")
    /\ UNCHANGED nonShellVars

backup_data ==
    /\ UpdateStep("backup_data")
    /\ IF sh.args.SKIP_BACKUP THEN Ran(<<>>, "pull_code")
       ELSE \E dataDir \in BOOLEAN :
               Ran(IF dataDir THEN <<"cp -r ./data">> ELSE <<>>, "pull_code")
    /\ UNCHANGED nonShellVars

\* pull_code and the two tests of PULL_ONLY that follow it
pull_code ==
    /\ UpdateStep("pull_code")
    /\ \E dirty \in BOOLEAN, reply \in Replies :
          IF dirty /\ ~Yes(reply) THEN RanAndExit(<<"git status">>, 1)
          ELSE IF sh.args.PULL_ONLY THEN RanAndExit(<<"git fetch", "git pull">>, 0)
          ELSE Ran(<<"git fetch", "git pull">>, "check_config_updates")
    /\ UNCHANGED nonShellVars

check_config_updates ==
    /\ UpdateStep("check_config_updates")
    /\ \E changed \in BOOLEAN, reply \in Replies :
          Ran(IF changed /\ Yes(reply) THEN <<"git diff docker-compose.yml">> ELSE <<>>,
              "check_dependencies")
    /\ UNCHANGED nonShellVars

\* NO_REBUILD after check_dependencies: changed Go or front-end
\* dependencies set it to false
AfterDependencies(noRebuild, goChanged, webChanged) ==
    IF goChanged \/ webChanged THEN FALSE ELSE noRebuild

check_dependencies ==
    /\ UpdateStep("check_dependencies")
    /\ \E goChanged \in BOOLEAN, webChanged \in BOOLEAN :
          sh' = [sh EXCEPT !.pc = "confirm",
                           !.NO_REBUILD = AfterDependencies(@, goChanged, webChanged)]
    /\ UNCHANGED nonShellVars

\* the confirmation of main
Update_Confirm ==
    /\ UpdateStep("confirm")
    /\ \E reply \in Replies :
          IF Yes(reply) THEN Ran(<<>>, "stop_services") ELSE RanAndExit(<<>>, 0)
    /\ UNCHANGED nonShellVars

stop_services ==
    /\ UpdateStep("stop_services")
    /\ \E stopped \in BOOLEAN :
          IF stopped THEN Ran(<<"docker-compose down">>, "build_image")
          ELSE RanAndExit(<<"docker-compose down">>, 1)
    /\ UNCHANGED nonShellVars

build_image ==
    /\ UpdateStep("build_image")
    /\ IF sh.NO_REBUILD THEN Ran(<<>>, "start_services")
       ELSE \E built \in BOOLEAN :
               IF built THEN Ran(<<"docker-compose build --no-cache">>, "start_services")
               ELSE RanAndExit(<<"docker-compose build --no-cache">>, 1)
    /\ UNCHANGED nonShellVars

start_services ==
    /\ UpdateStep("start_services")
    /\ \E started \in BOOLEAN :
          IF started THEN Ran(<<"docker-compose up -d">>, "check_health")
          ELSE RanAndExit(<<"docker-compose up -d">>, 1)
    /\ UNCHANGED nonShellVars

\* check_health, then show_status and cleanup
check_health ==
    /\ UpdateStep("check_health")
    /\ \E up \in BOOLEAN, healthy \in BOOLEAN :
          IF up /\ healthy
          THEN RanAndExit(<<"docker-compose ps", "curl", "docker image prune -f">>, 0)
          ELSE RanAndExit(<<"docker-compose ps">>, 1)
    /\ UNCHANGED nonShellVars

InitUpdate ==
    /\ NoRequest("update.sh")
    /\ ledger = [pc |-> "idle"]
    /\ MoreIdle
    /\ db = [rows |-> {}, nextId |-> 1]
    /\ disk = {}
    /\ mgr = [pc |-> "idle"]
    /\ \E args \in UpdateArgs : sh = StartUpdate(args)

NextUpdate ==
    \/ check_directory
    \/ backup_database
    \/ backup_data
    \/ pull_code
    \/ check_config_updates
    \/ check_dependencies
    \/ Update_Confirm
    \/ stop_services
    \/ build_image
    \/ start_services
    \/ check_health

SpecUpdate == InitUpdate /\ [][NextUpdate]_vars

\* the commands the run has executed
Executed == {sh.commands[k] : k \in DOMAIN sh.commands}

\* C18: a run of update.sh with --no-rebuild never executes docker-compose
\* build; the services are only stopped and started again.
C18_NoRebuildNeverBuilds ==
    (sh.script = "update.sh" /\ sh.args.NO_REBUILD) =>
        "docker-compose build --no-cache" \notin Executed

(***************************************************************************)
(* run_export.sh and scripts/export_channels.go.  Words of a command line  *)
(* are sequences of one-character strings.                                 *)
(***************************************************************************)
\* most arguments of a run_export.sh invocation
MaxArgs == 2

Word_v == <<"-", "v">>
Word_verbose == <<"-", "-", "v", "e", "r", "b", "o", "s", "e">>
Word_f == <<"-", "f">>
Word_format == <<"-", "-", "f", "o", "r", "m", "a", "t">>
Word_o == <<"-", "o">>
Word_output == <<"-", "-", "o", "u", "t", "p", "u", "t">>
Word_h == <<"-", "h">>
Word_help == <<"-", "-", "h", "e", "l", "p">>
Word_json == <<"j", "s", "o", "n">>
Word_csv == <<"c", "s", "v">>
Word_file == <<"m", "y", ".", "j", "s", "o", "n">>

\* the words an operator passes to run_export.sh
UserWords == {Word_v, Word_f, Word_o, Word_h, Word_csv, Word_file, Word_verbose}

\* ${1:-json} and ${2:-}: the positional parameter, or the default
Positional(args, n, default) ==
    IF n <= Len(args) /\ args[n] # <<>> THEN args[n] ELSE default

StartRunExport(args) ==
    [script |-> "run_export.sh", args |-> args, rest |-> args,
     FORMAT |-> Positional(args, 1, Word_json),
     OUTPUT_FILE |-> Positional(args, 2, <<>>),
     VERBOSE |-> FALSE, CMD |-> <<>>, pc |-> "parse", exit |-> StillRunning]

\* shift n: fails, and shifts nothing, when fewer than n parameters are left
Shift(rest, n) == IF Len(rest) >= n THEN SubSeq(rest, n + 1, Len(rest)) ELSE rest

\* one turn of the while loop over the parameters
RunExport_Parse ==
    /\ sh.script = "run_export.sh" /\ sh.pc = "parse"
    /\ IF sh.rest = <<>> THEN sh' = [sh EXCEPT !.pc = "build"]
       ELSE LET word == Head(sh.rest)
            IN  CASE word \in {Word_v, Word_verbose} ->
                       sh' = [sh EXCEPT !.VERBOSE = TRUE, !.rest = Shift(@, 1)]
                  [] word \in {Word_f, Word_format} ->
                       sh' = [sh EXCEPT !.FORMAT = Positional(sh.rest, 2, <<>>),
                                        !.rest = Shift(@, 2)]
                  [] word \in {Word_o, Word_output} ->
                       sh' = [sh EXCEPT !.OUTPUT_FILE = Positional(sh.rest, 2, <<>>),
                                        !.rest = Shift(@, 2)]
                  [] word \in {Word_h, Word_help} ->
                       sh' = [sh EXCEPT !.pc = "exit", !.exit = 0]
                  [] OTHER ->
                       sh' = [sh EXCEPT !.pc = "exit", !.exit = 1]
    /\ UNCHANGED nonShellVars

\* an expansion of a variable in CMD: an empty value gives no word
Expand(value) == IF value = <<>> THEN <<>> ELSE <<value>>

\* the words of CMD after go run export_channels.go
BuildCommand(FORMAT, OUTPUT_FILE, VERBOSE) ==
    <<<<"-", "f", "o", "r", "m", "a", "t">>>> \o Expand(FORMAT)
    \o (IF OUTPUT_FILE # <<>> THEN <<<<"-", "o", "u", "t", "p", "u", "t">>>> \o Expand(OUTPUT_FILE) ELSE <<>>)
    \o (IF VERBOSE THEN <<<<"-", "v", "e", "r", "b", "o", "s", "e">>>> ELSE <<>>)

RunExport_Build ==
    /\ sh.script = "run_export.sh" /\ sh.pc = "build"
    /\ sh' = [sh EXCEPT !.pc = "eval",
                        !.CMD = BuildCommand(sh.FORMAT, sh.OUTPUT_FILE, sh.VERBOSE)]
    /\ UNCHANGED nonShellVars

\* the flags export_channels.go defines, and whether each is a bool flag
ExportFlags ==
    {[name |-> <<"d", "s", "n">>, bool |-> FALSE],
     [name |-> <<"o", "u", "t", "p", "u", "t">>, bool |-> FALSE],
     [name |-> <<"h", "e", "l", "p">>, bool |-> TRUE],
     [name |-> <<"m", "a", "s", "k", "-", "k", "e", "y", "s">>, bool |-> TRUE]}

\* the position of the first = of a word, 0 if it has none
EqualsAt(word) ==
    IF \E k \in DOMAIN word : word[k] = "="
    THEN CHOOSE k \in DOMAIN word : word[k] = "=" /\ \A j \in 1..(k - 1) : word[j] # "="
    ELSE 0

RECURSIVE ParseFlags(_, _, _)
\* flag.Parse (flag.ExitOnError) over the words: the values it sets, or the
\* exit status of a refused command line
ParseFlags(formal, words, values) ==
    IF words = <<>> \/ Len(Head(words)) < 2 \/ Head(words)[1] # "-"
    THEN [exit |-> StillRunning, values |-> values]
    ELSE LET word == Head(words)
             minuses == IF word[2] = "-" THEN 2 ELSE 1
             text == SubSeq(word, minuses + 1, Len(word))
             eq == EqualsAt(text)
             name == IF eq > 0 THEN SubSeq(text, 1, eq - 1) ELSE text
         IN  IF Len(word) = 2 /\ minuses = 2
             THEN [exit |-> StillRunning, values |-> values]
             ELSE IF text = <<>> \/ text[1] \in {"-", "="}
             THEN [exit |-> 2, values |-> values]
             ELSE IF ~\E f \in formal : f.name = name
             THEN [exit |-> IF name \in {<<"h", "e", "l", "p">>, <<"h">>} THEN 0 ELSE 2,
                   values |-> values]
             ELSE LET f == CHOOSE g \in formal : g.name = name
                  IN  IF eq > 0
                      THEN ParseFlags(formal, Tail(words),
                                      values \cup {[name |-> name,
                                                    value |-> SubSeq(text, eq + 1, Len(text))]})
                      ELSE IF f.bool
                      THEN ParseFlags(formal, Tail(words),
                                      values \cup {[name |-> name, value |-> <<"t", "r", "u", "e">>]})
                      ELSE IF Len(words) < 2
                      THEN [exit |-> 2, values |-> values]
                      ELSE ParseFlags(formal, Tail(Tail(words)),
                                      values \cup {[name |-> name, value |-> words[2]]})

\* go run export_channels.go with the words: the child before flag.Parse
StartExportChannels(argv) ==
    [program |-> "export_channels.go", pc |-> "flag.Parse", argv |-> argv,
     values |-> {}, exit |-> StillRunning]

\* the value flag.Parse left in a flag, or its default
FlagValue(values, name, default) ==
    IF \E v \in values : v.name = name
    THEN (CHOOSE v \in values : v.name = name).value
    ELSE default

\* flag.Parse of export_channels.go
ExportChannels_Parse ==
    /\ mgr.pc = "flag.Parse"
    /\ LET parsed == ParseFlags(ExportFlags, mgr.argv, {})
       IN  IF parsed.exit # StillRunning
           THEN mgr' = [mgr EXCEPT !.pc = "done", !.exit = parsed.exit]
           ELSE mgr' = [mgr EXCEPT !.pc = "quick_export", !.values = parsed.values]
    /\ UNCHANGED <<db, disk>>
    /\ UNCHANGED nonManagerVars

\* common.LightChannel of a row
LightChannel(row) ==
    [Id |-> row.Id, Type |-> row.Type, Key |-> row.Key, Name |-> row.Name,
     Status |-> row.Status]

\* maskChannelKeys: one turn of its loop
maskChannelKey(ch) ==
    [ch EXCEPT !.Key = IF Len(@) > 8
                       THEN SubSeq(@, 1, 4) \o <<"*", "*", "*">> \o SubSeq(@, Len(@) - 3, Len(@))
                       ELSE <<"*", "*", "*">>]

\* main of export_channels.go after flag.Parse
ExportChannels_Main ==
    /\ mgr.pc = "quick_export"
    /\ IF FlagValue(mgr.values, <<"h", "e", "l", "p">>, <<>>) = <<"t", "r", "u", "e">>
       THEN /\ mgr' = [mgr EXCEPT !.pc = "done", !.exit = 0]
            /\ disk' = disk
       ELSE \E connected \in BOOLEAN, created \in BOOLEAN :
               IF ~connected \/ ~created
               THEN /\ mgr' = [mgr EXCEPT !.pc = "done", !.exit = 1]
                    /\ disk' = disk
               ELSE LET channels == getAllChannels(db, -1, -1)
                        masked == FlagValue(mgr.values, <<"m", "a", "s", "k", "-", "k", "e", "y", "s">>, <<"t", "r", "u", "e">>) = <<"t", "r", "u", "e">>
                        outputPath == FlagValue(mgr.values, <<"o", "u", "t", "p", "u", "t">>,
                                                <<"c", "h", "a", "n", "n", "e", "l", "s", "_", "q", "u", "i", "c", "k", "_", "e", "x", "p", "o", "r", "t", ".", "j", "s", "o", "n">>)
                    IN  /\ disk' = WriteFile(disk, File(outputPath, "json",
                                      [k \in DOMAIN channels |->
                                          IF masked
                                          THEN maskChannelKey(LightChannel(channels[k]))
                                          ELSE LightChannel(channels[k])]))
                        /\ mgr' = [mgr EXCEPT !.pc = "done", !.exit = 0]
    /\ UNCHANGED db
    /\ UNCHANGED nonManagerVars

\* eval $CMD
RunExport_Eval ==
    /\ sh.script \in {"run_export.sh", "go run"} /\ sh.pc = "eval"
    /\ mgr' = StartExportChannels(sh.CMD)
    /\ sh' = [sh EXCEPT !.pc = "wait"]
    /\ UNCHANGED disk
    /\ UNCHANGED nonScriptVars

\* the test of $? after the export
RunExport_Report ==
    /\ sh.script \in {"run_export.sh", "go run"} /\ sh.pc = "wait" /\ ChildDone
    /\ ScriptExit(IF mgr.exit = 0 THEN 0 ELSE 1)
    /\ UNCHANGED <<mgr, disk>>
    /\ UNCHANGED nonScriptVars

\* the command lines of export_channels.go the README gives
DocumentedCommands ==
    {<<>>, <<<<"-", "o", "u", "t", "p", "u", "t">>, Word_file>>, <<<<"-", "m", "a", "s", "k", "-", "k", "e", "y", "s", "=", "f", "a", "l", "s", "e">>>>,
     <<<<"-", "h", "e", "l", "p">>>>}

\* the tables of the quick export: none, or a short and a long key
QuickTables ==
    {TableOf({}),
     TableOf({[Id |-> 1, Name |-> "a", Type |-> 25, Status |-> 1,
               Key |-> SubSeq(KeyChars, 1, 9), Other |-> NoText],
              [Id |-> 2, Name |-> "b", Type |-> 1, Status |-> 2,
               Key |-> SubSeq(KeyChars, 1, 8), Other |-> NoText]})}

InitRunExport ==
    /\ NoRequest("run_export.sh")
    /\ ledger = [pc |-> "idle"]
    /\ MoreIdle
    /\ db \in QuickTables
    /\ disk = {}
    /\ mgr = [pc |-> "idle"]
    /\ \/ \E args \in SeqsUpTo(UserWords, MaxArgs) : sh = StartRunExport(args)
       \/ \E words \in DocumentedCommands :
             sh = [StartRunExport(<<>>) EXCEPT !.script = "go run", !.pc = "eval",
                                              !.CMD = words]

NextRunExport ==
    \/ RunExport_Parse
    \/ RunExport_Build
    \/ RunExport_Eval
    \/ RunExport_Report
    \/ ExportChannels_Parse
    \/ ExportChannels_Main

SpecRunExport == InitRunExport /\ [][NextRunExport]_vars

\* C19: every command line run_export.sh builds is accepted by
\* export_channels.go: flag.Parse refuses none of them, so a run without
\* arguments reaches the export.
C19_CommandLineAccepted ==
    (sh.script = "run_export.sh" /\ sh.pc \in {"wait", "exit"} /\ ChildDone) =>
        mgr.exit # 2

(***************************************************************************)
(* The quota ledger and the per-request state machine of the relay         *)
(* pipeline: pre-consume, routing with retries, settle, refund.            *)
(***************************************************************************)
\* largest pre-consumed amount and largest actual quota of a request
MaxAmount == 2
\* largest opening balance of the user and of the token
MaxQuota == 3
\* the cap of the routing loop's retry_index
MaxRetries == 1

\* the requests in flight, of one user through one token
Requests == {"r1", "r2"}

\* applied: the settlements and refunds the ledger has applied for the request
NewRequest ==
    [state |-> "AUTH", pre |-> 0, retry |-> 0, userDelta |-> 0, tokenDelta |-> 0,
     applied |-> <<>>]

\* a refund that forgets the token
refundUserOnly(book, r) ==
    [book EXCEPT !.user.quota = @ + book.requests[r].pre,
                 !.requests[r].userDelta = @ + book.requests[r].pre,
                 !.requests[r].applied = Append(@, "full-refund"),
                 !.requests[r].state = "REFUNDED"]

\* a refund that leaves the request where it was
refundKeepsState(book, r) ==
    [book EXCEPT !.requests[r].applied = Append(@, "full-refund")]

\* Terminate: the full pre-consumed amount goes back to the user and, iff
\* the token is not unlimited, to the token
refund(book, r) ==
    LET amount == book.requests[r].pre
        limited == ~book.token.unlimited
    IN  [book EXCEPT !.user.quota = @ + amount,
                     !.token.remain_quota = IF limited THEN @ + amount ELSE @,
                     !.requests[r].userDelta = @ + amount,
                     !.requests[r].tokenDelta = IF limited THEN @ + amount ELSE @,
                     !.requests[r].applied = Append(@, "full-refund"),
                     !.requests[r].state = "REFUNDED"]

\* pre_consume: one transaction on the user and the token
pre_consume(book, r, amount) ==
    LET limited == ~book.token.unlimited
    IN  IF book.user.quota < amount \/ (limited /\ book.token.remain_quota < amount)
        THEN [book EXCEPT !.requests[r].state = "REFUNDED"]
        ELSE [book EXCEPT !.user.quota = @ - amount,
                          !.token.remain_quota = IF limited THEN @ - amount ELSE @,
                          !.requests[r].pre = amount,
                          !.requests[r].userDelta = @ - amount,
                          !.requests[r].tokenDelta = IF limited THEN @ - amount ELSE @,
                          !.requests[r].state = "PRECONSUMED"]

\* Settle: post_consume of actual_quota - pre_consumed, negative for a
\* surplus that is refunded, positive for an overrun; kind tells the settle
\* of a complete response from the settle of an aborted stream
post_consume(book, r, actual, kind) ==
    LET delta == actual - book.requests[r].pre
        limited == ~book.token.unlimited
    IN  [book EXCEPT !.user.quota = @ - delta,
                     !.user.used_quota = @ + actual,
                     !.user.request_count = @ + 1,
                     !.token.remain_quota = IF limited THEN @ - delta ELSE @,
                     !.requests[r].userDelta = @ - delta,
                     !.requests[r].tokenDelta = IF limited THEN @ - delta ELSE @,
                     !.requests[r].applied = Append(@, kind),
                     !.requests[r].state = "SETTLED"]

InitLedger ==
    /\ NoRequest("relay")
    /\ db = [rows |-> {}, nextId |-> 1]
    /\ disk = {}
    /\ mgr = [pc |-> "idle"]
    /\ sh = [pc |-> "idle"]
    /\ MoreIdle
    /\ \E quota \in 0..MaxQuota, remain_quota \in 0..MaxQuota, unlimited \in BOOLEAN :
          ledger = [pc |-> "relay",
                    user |-> [quota |-> quota, used_quota |-> 0, request_count |-> 0],
                    token |-> [remain_quota |-> remain_quota, unlimited |-> unlimited],
                    opening |-> [quota |-> quota, remain_quota |-> remain_quota],
                    requests |-> [r \in Requests |-> NewRequest]]

At(r, state) == ledger.pc = "relay" /\ ledger.requests[r].state = state

\* steps 1 to 3: authentication, parsing, the token's allow-lists
Relay_Parse(r) ==
    /\ At(r, "AUTH")
    /\ \E accepted \in BOOLEAN :
          ledger' = [ledger EXCEPT !.requests[r].state =
                                      IF accepted THEN "PARSED" ELSE "REFUNDED"]
    /\ UNCHANGED nonLedgerVars

\* steps 4 and 5: the pre-consumed quota is computed and reserved
Relay_PreConsume(r) ==
    /\ At(r, "PARSED")
    /\ \E amount \in 1..MaxAmount : ledger' = pre_consume(ledger, r, amount)
    /\ UNCHANGED nonLedgerVars

\* step 6, selection: no channel is a failure, which is refunded
Relay_Route(r) ==
    /\ At(r, "PRECONSUMED") \/ At(r, "ROUTING")
    /\ \E selected \in BOOLEAN :
          ledger' = IF selected
                    THEN [ledger EXCEPT !.requests[r].state = "DISPATCHED"]
                    ELSE refund(ledger, r)
    /\ UNCHANGED nonLedgerVars

\* step 6, the upstream call: a response, a retriable failure that loops
\* while the cap allows, or a failure that ends the request
Relay_Dispatch(r) ==
    /\ At(r, "DISPATCHED")
    /\ \E outcome \in {"response", "UpstreamTransient", "UpstreamFatal"} :
          ledger' = CASE outcome = "response" ->
                           [ledger EXCEPT !.requests[r].state = "RESPONDING"]
                      [] outcome = "UpstreamTransient"
                         /\ ledger.requests[r].retry < MaxRetries ->
                           [ledger EXCEPT !.requests[r].state = "ROUTING",
                                          !.requests[r].retry = @ + 1]
                      [] OTHER -> refund(ledger, r)
    /\ UNCHANGED nonLedgerVars

\* steps 7 to 9: the response is relayed and settled with its usage, also
\* after a client disconnect; a fatal error in mid-stream is refunded
Relay_Respond(r) ==
    /\ At(r, "RESPONDING")
    /\ \/ \E actual \in 0..MaxAmount, kind \in {"success-settle", "partial-refund"} :
             ledger' = post_consume(ledger, r, actual, kind)
       \/ ledger' = refund(ledger, r)
    /\ UNCHANGED nonLedgerVars

Relay_Parsing == \E r \in Requests : Relay_Parse(r)

Relay_PreConsuming == \E r \in Requests : Relay_PreConsume(r)

Relay_Routing == \E r \in Requests : Relay_Route(r)

Relay_Dispatching == \E r \in Requests : Relay_Dispatch(r)

Relay_Responding == \E r \in Requests : Relay_Respond(r)

NextLedger ==
    \/ Relay_Parsing
    \/ Relay_PreConsuming
    \/ Relay_Routing
    \/ Relay_Dispatching
    \/ Relay_Responding

SpecLedger == InitLedger /\ [][NextLedger]_vars

\* C20: a request that ends in REFUNDED has changed neither the user's quota
\* nor the token's remain_quota: what it pre-consumed has come back in full,
\* and when every request of the run ends so both balances are the opening
\* balances.
C20_RefundedNetZero ==
    ledger.pc = "relay" =>
        /\ \A r \in Requests :
              ledger.requests[r].state = "REFUNDED" =>
                 ledger.requests[r].userDelta = 0 /\ ledger.requests[r].tokenDelta = 0
        /\ (\A r \in Requests : ledger.requests[r].state = "REFUNDED") =>
              /\ ledger.user.quota = ledger.opening.quota
              /\ ledger.token.remain_quota = ledger.opening.remain_quota

C20_Witness ==
    /\ ledger.pc = "relay"
    /\ ~ledger.token.unlimited
    /\ \A r \in Requests : ledger.requests[r].state = "REFUNDED"
    /\ ledger.requests["r1"].pre = 2 /\ ledger.requests["r1"].retry = 1
    /\ ledger.requests["r2"].pre = 1

\* C21: whatever path a request takes through its state machine, the ledger
\* applies at most one of success-settle, full-refund and partial-refund for
\* it, and a request that has one applied is in a terminal state.
C21_AtMostOneSettlement ==
    ledger.pc = "relay" =>
        \A r \in Requests :
           /\ Len(ledger.requests[r].applied) <= 1
           /\ ledger.requests[r].applied # <<>> =>
                 ledger.requests[r].state \in {"SETTLED", "REFUNDED"}

C21_Witness ==
    /\ ledger.pc = "relay"
    /\ ledger.requests["r1"].applied = <<"partial-refund">>
    /\ ledger.requests["r1"].retry = 1
    /\ ledger.requests["r2"].applied = <<"full-refund">>
    /\ ledger.requests["r2"].pre > 0

(***************************************************************************)
(* Channel selection over priority bands and the routing loop of one       *)
(* request: retry_index, the tried channels, the fallback to band 0.       *)
(***************************************************************************)
\* number of channels with an ability for the request's (group, model)
MaxChannels == 3
\* largest priority of an ability
MaxPriority == 2
\* the cap of retry_index
RetryTimes == 3

RouteChannels == 1..MaxChannels

\* the priorities of the abilities, highest first: one band per value
BandPriorities(priority) == {priority[id] : id \in RouteChannels}

\* the number of priorities above p: the index of p's band
BandIndex(priority, p) == Cardinality({q \in BandPriorities(priority) : q > p})

Band(priority, k) == {id \in RouteChannels : BandIndex(priority, priority[id]) = k}

\* the fallback without the tried set
bandZero(priority, retry_index, tried) ==
    IF retry_index < Cardinality(BandPriorities(priority))
    THEN Band(priority, retry_index)
    ELSE Band(priority, 0)

\* the entries get_random_satisfied_channel draws from: band retry_index, or
\* band 0 minus the channels already tried when there is no such band; the
\* weighted draw gives every entry a positive probability (max(weight, 1))
satisfiedChannels(priority, retry_index, tried) ==
    IF retry_index < Cardinality(BandPriorities(priority))
    THEN Band(priority, retry_index)
    ELSE Band(priority, 0) \ {tried[i] : i \in DOMAIN tried}

nonRouterVars == <<fileVars, img, toolVars, ledger, download, tester>>

InitRouting ==
    /\ NoRequest("relay")
    /\ db = [rows |-> {}, nextId |-> 1]
    /\ disk = {}
    /\ mgr = [pc |-> "idle"]
    /\ sh = [pc |-> "idle"]
    /\ ledger = [pc |-> "idle"]
    /\ download = [pc |-> "idle"]
    /\ tester = [pc |-> "idle"]
    /\ \E priority \in [RouteChannels -> 1..MaxPriority] :
          router = [pc |-> "ROUTING", priority |-> priority, retry_index |-> 0,
                    tried |-> <<>>, selected |-> 0, error |-> "none"]

\* step 6: select a channel; none ends the loop
Routing_Select ==
    /\ router.pc = "ROUTING"
    /\ LET entries == satisfiedChannels(router.priority, router.retry_index, router.tried)
       IN  IF entries = {}
           THEN router' = [router EXCEPT !.pc = "FAIL", !.selected = 0,
                                         !.error = "NoAvailableChannel"]
           ELSE \E id \in entries :
                   router' = [router EXCEPT !.pc = "DISPATCHED", !.selected = id]
    /\ UNCHANGED nonRouterVars

\* step 6: the upstream answers; a retriable failure is recorded and the
\* loop goes on with retry_index + 1 while the cap allows
Routing_Upstream ==
    /\ router.pc = "DISPATCHED"
    /\ \E outcome \in {"response", "UpstreamTransient", "UpstreamAuthDead", "UpstreamFatal"} :
          router' =
             CASE outcome = "response" -> [router EXCEPT !.pc = "RESPONDING"]
               [] outcome = "UpstreamFatal" ->
                    [router EXCEPT !.pc = "FAIL", !.error = outcome]
               [] OTHER ->
                    IF router.retry_index < RetryTimes
                    THEN [router EXCEPT !.pc = "ROUTING",
                                        !.tried = Append(@, router.selected),
                                        !.retry_index = @ + 1,
                                        !.error = outcome]
                    ELSE [router EXCEPT !.pc = "FAIL",
                                        !.tried = Append(@, router.selected),
                                        !.error = outcome]
    /\ UNCHANGED nonRouterVars

NextRouting ==
    \/ Routing_Select
    \/ Routing_Upstream

SpecRouting == InitRouting /\ [][NextRouting]_vars

\* C22: the channel selected in a retry is not the channel that failed with a
\* retriable error in the retry before it, also when retry_index has no band
\* of its own and the selection falls back to band 0.
C22_FailedChannelNotReselected ==
    (router.pc = "DISPATCHED" /\ router.tried # <<>>) =>
        router.selected # router.tried[Len(router.tried)]

\* the fallback has selected a channel of band 0, the band of the channel
\* that failed in retry 0
C22_Witness ==
    /\ router.pc = "DISPATCHED"
    /\ router.retry_index = 1
    /\ Cardinality(BandPriorities(router.priority)) = 1
    /\ router.selected # router.tried[1]

(***************************************************************************)
(* channel_manager.go: the pre-restore backup and the import statistics.   *)
(***************************************************************************)
PreRestoreBackups == {f \in disk : f.name = "pre_restore_backup_TIMESTAMP.json"}

\* C23: a restore deletes the existing rows only when the pre-restore backup
\* holding all of them has been written; when the backup cannot be written the
\* rows stay.
C23_RowsDeletedOnlyAfterBackup ==
    [][(mgr.pc = "restore_clear" /\ db.rows # {} /\ db'.rows = {}) =>
          \E f \in PreRestoreBackups' : f.channels = getAllChannels(db, -1, -1)]_vars

(***************************************************************************)
(* reset_database.sh: what --dry-run announces and what a run does.        *)
(***************************************************************************)
\* the run has gone through the --dry-run branch of main
DryRunShown ==
    /\ sh.script = "reset_database.sh" /\ sh.pc = "exit" /\ sh.exit = 0
    /\ sh.args.dry_run /\ sh.args.restore_file = ""
    /\ ~sh.args.help /\ ~sh.args.unknown

\* C24: the operations reset_database.sh --dry-run lists are the operations
\* the same options perform without --dry-run, for every combination of
\* --backup-only and --reset-only.
C24_DryRunListsWhatRuns ==
    DryRunShown => sh.listed = Operations(sh.args)

(***************************************************************************)
(* GeminiImageGenerationHandler: the images written to the client.         *)
(***************************************************************************)
RECURSIVE AllParts(_)
\* the parts of the upstream body, candidate after candidate
AllParts(candidates) ==
    IF candidates = <<>> THEN <<>>
    ELSE Head(candidates) \o AllParts(Tail(candidates))

\* the upstream parts that carry an image
ImageParts(body) ==
    SelectSeq(AllParts(body.candidates), LAMBDA part : part.mimeType # "" /\ part.data # "")

\* C25: for an upstream body that parses, the handler writes one image entry
\* per upstream part with a non-empty mimeType and non-empty data, no other
\* entry, in upstream order, and returns a usage; with no candidate or no
\* such part it writes nothing and returns an error of status 400 and no
\* usage.
C25_ImagesAreTheImageParts ==
    (handler = "GeminiImageGenerationHandler" /\ img.pc = "done" /\ img.body.kind = "json") =>
        LET parts == ImageParts(img.body)
        IN  IF parts = <<>>
            THEN /\ img.written = <<>> /\ img.wroteStatus = 0
                 /\ img.err.status = 400 /\ ~img.usage.set
            ELSE /\ img.written = [k \in DOMAIN parts |-> [B64Json |-> parts[k].data]]
                 /\ img.err = NoError /\ img.usage.set

\* two candidates: a part with data and no mime type, then an image
C25_Witness ==
    /\ handler = "GeminiImageGenerationHandler" /\ img.pc = "done"
    /\ img.body.candidates = << <<[mimeType |-> "", data |-> "img-0"]>>,
                                <<[mimeType |-> "image/png", data |-> "img-1"]>> >>
    /\ img.written = << [B64Json |-> "img-1"] >>

(***************************************************************************)
(* service/cf_worker.go: DoDownloadRequest and DoWorkerRequest.  A URL is  *)
(* the list of its pieces; the network answers with any status or fails.   *)
(***************************************************************************)
\* largest number of pieces of a URL
MaxPieces == 3

UrlPieces ==
    {"https", "http", "://generativelanguage.googleapis.com", "/v1beta/files/", "/img.png"}

GeminiFilesUrl == <<"://generativelanguage.googleapis.com", "/v1beta/files/">>

\* strings.Contains
Contains(s, substr) ==
    \E k \in 0..(Len(s) - Len(substr)) : SubSeq(s, k + 1, k + Len(substr)) = substr

Settings == [EnableWorker : BOOLEAN, WorkerAllowHttpImageRequestEnabled : BOOLEAN]

\* a worker that takes every URL
workerTakesAny(setting, url) == TRUE

\* DoWorkerRequest goes on to http.Post: not refused as a URL without https
workerTakes(setting, url) ==
    setting.WorkerAllowHttpImageRequestEnabled \/ HasPrefix(url, <<"https">>)

NoDownload == [set |-> FALSE, StatusCode |-> 0, Body |-> "", via |-> ""]

\* what http.Get and http.Post return: a response of the far end, or an error
NetworkResults ==
    {[resp |-> [set |-> TRUE, StatusCode |-> status, Body |-> "bytes", via |-> ""],
      err |-> ""] : status \in {200, 404}}
    \cup {[resp |-> NoDownload, err |-> "network error"]}

Returned(resp, err) ==
    download' = [download EXCEPT !.pc = "done", !.resp = resp, !.err = err]

\* a request leaves the process and its result is returned
Sent(via, result) ==
    download' = [download EXCEPT
                    !.pc = "done",
                    !.requests = Append(@, [via |-> via, url |-> download.originUrl]),
                    !.resp = [result.resp EXCEPT !.via = IF result.resp.set THEN via ELSE ""],
                    !.err = result.err]

nonDownloadVars == <<fileVars, img, toolVars, ledger, router, tester>>

InitDownload ==
    /\ NoRequest("DoDownloadRequest")
    /\ db = [rows |-> {}, nextId |-> 1]
    /\ disk = {}
    /\ mgr = [pc |-> "idle"]
    /\ sh = [pc |-> "idle"]
    /\ ledger = [pc |-> "idle"]
    /\ router = [pc |-> "idle"]
    /\ tester = [pc |-> "idle"]
    /\ \E originUrl \in SeqsUpTo(UrlPieces, MaxPieces), setting \in Settings :
          download = [pc |-> "DoDownloadRequest", originUrl |-> originUrl,
                      setting |-> setting, requests |-> <<>>,
                      resp |-> NoDownload, err |-> ""]

\* DoDownloadRequest: the dummy response for a Gemini file URL, the worker,
\* or http.Get of the origin
DoDownloadRequest ==
    /\ download.pc = "DoDownloadRequest"
    /\ IF Contains(download.originUrl, GeminiFilesUrl)
       THEN Returned([set |-> TRUE, StatusCode |-> 200, Body |-> "", via |-> "dummy"], "")
       ELSE IF download.setting.EnableWorker
       THEN download' = [download EXCEPT !.pc = "DoWorkerRequest"]
       ELSE \E result \in NetworkResults : Sent("origin", result)
    /\ UNCHANGED nonDownloadVars

\* DoWorkerRequest: refusals, then http.Post to the worker
DoWorkerRequest ==
    /\ download.pc = "DoWorkerRequest"
    /\ IF ~download.setting.EnableWorker
       THEN Returned(NoDownload, "worker not enabled")
       ELSE IF ~workerTakes(download.setting, download.originUrl)
       THEN Returned(NoDownload, "only support https url")
       ELSE \E result \in NetworkResults : Sent("worker", result)
    /\ UNCHANGED nonDownloadVars

NextDownload ==
    \/ DoDownloadRequest
    \/ DoWorkerRequest

SpecDownload == InitDownload /\ [][NextDownload]_vars

GeminiFile == Contains(download.originUrl, GeminiFilesUrl)

DummyResponse ==
    /\ download.requests = <<>>
    /\ download.resp = [set |-> TRUE, StatusCode |-> 200, Body |-> "", via |-> "dummy"]
    /\ download.err = ""

\* C26 as stated: a Gemini file URL is answered 200 with an empty body and no
\* request; every other URL has exactly one request, through the worker
\* exactly when the worker is enabled.
C26_OneRequestForOtherUrls ==
    download.pc = "done" =>
        IF GeminiFile THEN DummyResponse
        ELSE /\ Len(download.requests) = 1
             /\ download.requests[1].via = "worker" <=> download.setting.EnableWorker

\* C26, amended: as above, except that with the worker enabled a URL that
\* does not begin with https, when http image requests are not allowed, has
\* no request at all: the error "only support https url" and no response.
C26_OneRequestUnlessRefused ==
    download.pc = "done" =>
        IF GeminiFile THEN DummyResponse
        ELSE IF /\ download.setting.EnableWorker
                /\ ~download.setting.WorkerAllowHttpImageRequestEnabled
                /\ ~HasPrefix(download.originUrl, <<"https">>)
        THEN /\ download.requests = <<>>
             /\ download.resp = NoDownload
             /\ download.err = "only support https url"
        ELSE /\ Len(download.requests) = 1
             /\ download.requests[1].url = download.originUrl
             /\ download.requests[1].via = "worker" <=> download.setting.EnableWorker

\* an http URL refused by the enabled worker
C26_Witness ==
    /\ download.pc = "done"
    /\ download.originUrl = <<"http", "/img.png">>
    /\ download.setting.EnableWorker
    /\ download.err = "only support https url"

(***************************************************************************)
(* scripts/test_gemini_keys.go: TestChannel over the keys of a channel.    *)
(* A key text is the list of its characters.                               *)
(***************************************************************************)
\* longest channel.Key
MaxKeyText == 4

Newline == "\n"

KeyTextChars == {Newline, " ", "g", "b", "[", "{"}

\* the keys the upstream answers 200 with candidates for
ValidKeys == {<<"g">>}

WhiteSpace == {Newline, " "}

RECURSIVE TrimLeft(_)
TrimLeft(s) ==
    IF s # <<>> /\ Head(s) \in WhiteSpace THEN TrimLeft(Tail(s)) ELSE s

RECURSIVE TrimRight(_)
TrimRight(s) ==
    IF s # <<>> /\ s[Len(s)] \in WhiteSpace THEN TrimRight(SubSeq(s, 1, Len(s) - 1)) ELSE s

\* strings.TrimSpace
TrimSpace(s) == TrimRight(TrimLeft(s))

RECURSIVE Split(_, _)
\* strings.Split(s, sep) for a separator of one character
Split(s, sep) ==
    IF s = <<>> THEN << <<>> >>
    ELSE LET rest == Split(Tail(s), sep)
         IN  IF Head(s) = sep
             THEN << <<>> >> \o rest
             ELSE << <<Head(s)>> \o Head(rest) >> \o Tail(rest)

\* the keys the loop skips: empty, or JSON (Vertex AI)
SkippedKey(key) == key = <<>> \/ HasPrefix(key, <<"[">>) \/ HasPrefix(key, <<"{">>)

\* TestGeminiKey: HTTP 200 with candidates, or 400
TestGeminiKey(geminiKey) ==
    IF geminiKey \in ValidKeys
    THEN [success |-> TRUE, message |-> "API key is valid"]
    ELSE [success |-> FALSE, message |-> "Invalid API key (400 Bad Request)"]

\* a loop that returns after the first key it tests
returnsAfterAnyKey(success) == TRUE

\* if success { return result }
returnsEarly(success) == success

nonTesterVars == <<fileVars, img, toolVars, ledger, router, download>>

TesterAlone(program) ==
    /\ NoRequest(program)
    /\ db = [rows |-> {}, nextId |-> 1]
    /\ disk = {}
    /\ mgr = [pc |-> "idle"]
    /\ sh = [pc |-> "idle"]
    /\ ledger = [pc |-> "idle"]
    /\ router = [pc |-> "idle"]
    /\ download = [pc |-> "idle"]

InitTestChannel ==
    /\ TesterAlone("TestChannel")
    /\ \E text \in SeqsUpTo(KeyTextChars, MaxKeyText) :
          tester = [pc |-> "TestChannel", Key |-> text, keys |-> <<>>, k |-> 1,
                    tested |-> <<>>,
                    result |-> [Success |-> FALSE, Message |-> ""]]

\* the test model, the base URL, the split of channel.Key
TestChannel_Split ==
    /\ tester.pc = "TestChannel"
    /\ tester' = [tester EXCEPT !.pc = "keys", !.keys = Split(TrimSpace(tester.Key), Newline)]
    /\ UNCHANGED nonTesterVars

\* one turn of the loop over keys
TestChannel_Key ==
    /\ tester.pc = "keys" /\ tester.k <= Len(tester.keys)
    /\ LET key == TrimSpace(tester.keys[tester.k])
           tried == TestGeminiKey(key)
       IN  IF SkippedKey(key)
           THEN tester' = [tester EXCEPT !.k = @ + 1]
           ELSE tester' = [tester EXCEPT
                              !.k = @ + 1,
                              !.tested = Append(@, key),
                              !.result = [Success |-> tried.success, Message |-> tried.message],
                              !.pc = IF returnsEarly(tried.success) THEN "done" ELSE "keys"]
    /\ UNCHANGED nonTesterVars

\* after the loop
TestChannel_Return ==
    /\ tester.pc = "keys" /\ tester.k > Len(tester.keys)
    /\ tester' = [tester EXCEPT
                     !.pc = "done",
                     !.result.Message = IF @ = "" THEN "No valid API key found" ELSE @]
    /\ UNCHANGED nonTesterVars

NextTestChannel ==
    \/ TestChannel_Split
    \/ TestChannel_Key
    \/ TestChannel_Return

SpecTestChannel == InitTestChannel /\ [][NextTestChannel]_vars

\* the keys of the channel that are neither empty nor JSON-shaped, in order
TestableKeys ==
    SelectSeq([k \in DOMAIN Split(tester.Key, Newline) |->
                  TrimSpace(Split(tester.Key, Newline)[k])],
              LAMBDA key : ~SkippedKey(key))

\* the testable keys up to the first one that passes
UpToFirstValid ==
    LET valid == {k \in DOMAIN TestableKeys : TestableKeys[k] \in ValidKeys}
    IN  IF valid = {} THEN TestableKeys
        ELSE SubSeq(TestableKeys, 1, CHOOSE k \in valid : \A j \in valid : k <= j)

\* C27: TestChannel reports success exactly when one of the channel's keys
\* that is neither empty nor JSON-shaped passes TestGeminiKey; the keys are
\* tested in order up to the first that passes, whatever failed before it.
C27_SuccessIffSomeKeyPasses ==
    (tester.pc = "done" /\ handler = "TestChannel") =>
        /\ tester.result.Success <=> \E k \in DOMAIN TestableKeys : TestableKeys[k] \in ValidKeys
        /\ tester.tested = UpToFirstValid

\* a key that fails, then the key that passes
C27_Witness ==
    /\ tester.pc = "done" /\ handler = "TestChannel"
    /\ tester.Key = <<"b", Newline, "g">>
    /\ tester.result.Success
    /\ tester.tested = << <<"b">>, <<"g">> >>

(***************************************************************************)
(* scripts/test_gemini_keys.go: TestChannels, one goroutine per selected   *)
(* channel behind the semaphore sem of capacity -workers.                  *)
(***************************************************************************)
\* largest number of selected channels
MaxSelected == 2
\* largest value of the -workers flag
MaxWorkersFlag == 3

\* the values of -workers: flag.Int takes any integer
WorkersFlags == (-1)..MaxWorkersFlag

InitTestChannels ==
    /\ TesterAlone("TestChannels")
    /\ \E flagValue \in WorkersFlags, selected \in 0..MaxSelected :
          tester = [pc |-> "TestChannels", workers |-> flagValue,
                    channels |-> [k \in 1..selected |-> k], i |-> 1,
                    sem |-> 0, wg |-> 0,
                    goroutines |-> [k \in 1..selected |-> "not started"],
                    results |-> <<>>, err |-> ""]

\* the query, and make(chan struct{}, workers), which panics for a negative
\* size
TestChannels_Query ==
    /\ tester.pc = "TestChannels"
    /\ \E queried \in BOOLEAN :
          tester' =
             IF ~queried THEN [tester EXCEPT !.pc = "returned",
                                             !.err = "failed to query channels"]
             ELSE IF Len(tester.channels) = 0 THEN [tester EXCEPT !.pc = "returned"]
             ELSE IF tester.workers < 0 THEN [tester EXCEPT !.pc = "panic"]
             ELSE [tester EXCEPT !.pc = "loop"]
    /\ UNCHANGED nonTesterVars

\* one turn of the loop: wg.Add(1), sem <- struct{}{}, which waits for room
\* in the channel, and the go statement
TestChannels_Spawn ==
    /\ tester.pc = "loop" /\ tester.i <= Len(tester.channels)
    /\ tester.sem < tester.workers
    /\ tester' = [tester EXCEPT !.wg = @ + 1, !.sem = @ + 1,
                                !.goroutines[tester.i] = "running",
                                !.i = @ + 1]
    /\ UNCHANGED nonTesterVars

\* a goroutine: TestChannel, then the append under t.mu
TestChannels_Append ==
    /\ handler = "TestChannels"
    /\ \E idx \in DOMAIN tester.goroutines, success \in BOOLEAN :
          /\ tester.goroutines[idx] = "running"
          /\ tester' = [tester EXCEPT
                           !.goroutines[idx] = "appended",
                           !.results = Append(@, [ChannelID |-> tester.channels[idx],
                                                  Success |-> success])]
    /\ UNCHANGED nonTesterVars

\* the deferred calls of a goroutine: <-sem, then wg.Done()
TestChannels_Done ==
    /\ handler = "TestChannels"
    /\ \E idx \in DOMAIN tester.goroutines :
          /\ tester.goroutines[idx] = "appended"
          /\ tester' = [tester EXCEPT !.goroutines[idx] = "done",
                                      !.sem = @ - 1, !.wg = @ - 1]
    /\ UNCHANGED nonTesterVars

\* wg.Wait() and return nil
TestChannels_Wait ==
    /\ tester.pc = "loop" /\ tester.i > Len(tester.channels)
    /\ tester.wg = 0
    /\ tester' = [tester EXCEPT !.pc = "returned"]
    /\ UNCHANGED nonTesterVars

NextTestChannels ==
    \/ TestChannels_Query
    \/ TestChannels_Spawn
    \/ TestChannels_Append
    \/ TestChannels_Done
    \/ TestChannels_Wait

SpecTestChannels == InitTestChannels /\ [][NextTestChannels]_vars

\* C30: for every value of -workers and every set of selected channels,
\* TestChannels goes on until it returns (it is never left with no step to
\* take before that), and when it has returned without a query error results
\* holds exactly one entry for each selected channel.
C30_TestChannelsReturns ==
    handler = "TestChannels" =>
        /\ tester.pc = "returned" \/ ENABLED NextTestChannels
        /\ (tester.pc = "returned" /\ tester.err = "") =>
              /\ Len(tester.results) = Len(tester.channels)
              /\ \A k \in DOMAIN tester.channels :
                    Cardinality({j \in DOMAIN tester.results :
                                    tester.results[j].ChannelID = tester.channels[k]}) = 1

(***************************************************************************)
(* channel_manager.go: the statistics and the repetition of an import.     *)
(***************************************************************************)
ImportPrinted ==
    /\ handler = "channel_manager.go" /\ mgr.pc = "done"
    /\ mgr.flags.action = "import"
    /\ mgr.printed \in {"imported", "dry-run import"}

\* C28: in the statistics an import run prints, Total is the number of
\* channels of the input file and Total = Success + Failed + Skipped: every
\* channel is counted once.
C28_TotalIsSumOfCounts ==
    ImportPrinted =>
        /\ mgr.result.Total = Len(mgr.data)
        /\ mgr.result.Total = mgr.result.Success + mgr.result.Failed + mgr.result.Skipped

\* the operator runs the import of one input file twice in succession, with
\* the default flags
ImportFlags == [DefaultFlags EXCEPT !.action = "import", !.input = "in.json"]

InitImportTwice ==
    /\ NoRequest("import twice")
    /\ ledger = [pc |-> "idle"]
    /\ MoreIdle
    /\ db \in Tables
    /\ \E data \in SeqsUpTo(InputChannels, MaxInput) :
          disk = {File("in.json", "json", data)}
    /\ mgr = [pc |-> "idle"]
    /\ sh = [script |-> "import twice", pc |-> "run", runs |-> 0, exits |-> <<>>,
             first |-> db]

\* go run channel_manager.go -action=import -input=in.json
Operator_Import ==
    /\ sh.script = "import twice" /\ sh.pc = "run" /\ sh.runs < 2
    /\ mgr' = StartManager(ImportFlags)
    /\ sh' = [sh EXCEPT !.pc = "wait", !.runs = @ + 1]
    /\ UNCHANGED <<db, disk>>
    /\ UNCHANGED nonScriptVars

\* the run has ended: its exit status and, after the first run, the table
Operator_Done ==
    /\ sh.script = "import twice" /\ sh.pc = "wait" /\ ChildDone
    /\ sh' = [sh EXCEPT !.pc = IF sh.runs < 2 THEN "run" ELSE "exit",
                        !.exits = Append(@, mgr.exit),
                        !.first = IF sh.runs = 1 THEN db ELSE @]
    /\ UNCHANGED <<mgr, disk>>
    /\ UNCHANGED nonScriptVars

NextImportTwice ==
    \/ Operator_Import
    \/ Operator_Done
    \/ Manager_Main
    \/ handleImport_Load
    \/ handleImport_Channel
    \/ handleImport_Print

SpecImportTwice == InitImportTwice /\ [][NextImportTwice]_vars

SecondRun == sh.script = "import twice" /\ sh.runs = 2 /\ sh.exits = <<0>>

\* C29: with the default flags, a second import of the same input file,
\* right after a first one that succeeded, changes no row of the channels
\* table (it skips every channel), so the table after two runs is the table
\* after one; also for a file with several channels of one name.
C29_SecondImportChangesNothing ==
    /\ [][SecondRun => db' = db]_vars
    /\ [](SecondRun /\ mgr.pc = "done" /\ mgr.exit = 0 =>
             /\ db = sh.first
             /\ mgr.result.Skipped = Len(mgr.data))

\* the file has two channels of one name, which the table did not have
C29_Witness ==
    /\ sh.script = "import twice" /\ sh.pc = "exit" /\ sh.exits = <<0, 0>>
    /\ Len(mgr.data) = 2
    /\ mgr.data[1].Name = mgr.data[2].Name
    /\ Cardinality(db.rows) = 1
    /\ \A r \in db.rows : r.Key = <<"n">>

====
